---- MODULE Spec2Model ----
(***************************************************************************)
(* CabinetForge: the CAB editor (cab_editor.py), its manifest coordinator  *)
(* and the CE layout writer (ce_cab_writer.py) as a state machine.         *)
(*                                                                         *)
(* Text is a sequence of character codes, so that lower(), upper(),        *)
(* isalnum(), startswith() and sorted() are computed, not assumed.         *)
(* None is the empty sequence and a present value v is <<v>>.              *)
(***************************************************************************)
EXTENDS Integers, Sequences, FiniteSets, TLC

\* ------------------------------------------------------------------ bounds

\* The clock runs 0..MaxClock seconds.
MaxClock == 2
\* Editor calls per behaviour.
MaxOps == 3

\* ------------------------------------------------------------------- text

None == <<>>
Some(v) == <<v>>

\* the string literals of the code
Lit == [
    setup_xml |-> <<95,115,101,116,117,112,46,120,109,108>>,            \* "_setup.xml"
    FileOperation |-> <<70,105,108,101,79,112,101,114,97,116,105,111,110>>,
        \* "FileOperation"
    Install |-> <<73,110,115,116,97,108,108>>,                          \* "Install"
    NumFiles |-> <<78,117,109,70,105,108,101,115>>,                     \* "NumFiles"
    Extract |-> <<69,120,116,114,97,99,116>>,                           \* "Extract"
    Source |-> <<83,111,117,114,99,101>>,                               \* "Source"
    install |-> <<105,110,115,116,97,108,108>>,                         \* "install"
    PYFILE |-> <<80,89,70,73,76,69>>,                                   \* "PYFILE"
    BIN |-> <<66,73,78>>,                                               \* "BIN"
    PY |-> <<80,89>>,                                                   \* "PY"
    dotDAT |-> <<46,68,65,84>>,                                         \* ".DAT"
    default_name |-> <<99,97,98,105,110,101,116,102,111,114,103,101,95,111,117,116,112,117,116>> ]
        \* "cabinetforge_output"

\* the names that come from outside: archive keys, manifest entries, call
\* arguments and paths on disk
Names == [
    A_TXT |-> <<65,46,84,88,84>>,                             \* "A.TXT"
    a_txt |-> <<97,46,116,120,116>>,                          \* "a.txt"
    B_TXT |-> <<66,46,84,88,84>>,                             \* "B.TXT"
    b_txt |-> <<98,46,116,120,116>>,                          \* "b.txt"
    NOPE_BIN |-> <<78,79,80,69,46,66,73,78>>,                 \* "NOPE.BIN"
    Readme_txt |-> <<82,101,97,100,109,101,46,116,120,116>>,  \* "Readme.txt"
    x_bin |-> <<120,46,98,105,110>>,                          \* "x.bin"
    Windows |-> <<92,87,105,110,100,111,119,115>>,            \* "\Windows"
    Nope |-> <<92,78,111,112,101>>,                           \* "\Nope"
    d1 |-> <<100,49,46,99,97,98>>,                            \* "d1.cab"
    d2 |-> <<100,50,46,99,97,98>>,                            \* "d2.cab"
    d3 |-> <<100,51,46,99,97,98>>,                            \* "d3.cab"
    d4 |-> <<100,52,46,99,97,98>>,                            \* "d4.cab"
    d5 |-> <<100,53,46,99,97,98>> ]                           \* "d5.cab"

\* str.isalnum() on one ASCII character: A-Z, a-z or 0-9
IsAlnum(c) == c \in (65..90) \cup (97..122) \cup (48..57)
\* str.lower() / str.upper()
Lower(s) == [i \in 1..Len(s) |-> IF s[i] \in 65..90 THEN s[i] + 32 ELSE s[i]]
Upper(s) == [i \in 1..Len(s) |-> IF s[i] \in 97..122 THEN s[i] - 32 ELSE s[i]]
\* s[:n]
Prefix(s, n) == SubSeq(s, 1, IF Len(s) < n THEN Len(s) ELSE n)
\* "".join(ch for ch in s if ch.isalnum())
KeepAlnum(s) == SelectSeq(s, IsAlnum)

IsSpace(c) == c = 32 \/ c = 9 \/ c = 10 \/ c = 13
RECURSIVE LStrip(_)
LStrip(s) == IF Len(s) > 0 /\ IsSpace(s[1]) THEN LStrip(Tail(s)) ELSE s
RECURSIVE RStrip(_)
RStrip(s) ==
    IF Len(s) > 0 /\ IsSpace(s[Len(s)]) THEN RStrip(SubSeq(s, 1, Len(s) - 1)) ELSE s
\* str.strip()
Strip(s) == LStrip(RStrip(s))

\* str(n) for n >= 0
RECURSIVE Str(_)
Str(n) == IF n < 10 THEN <<48 + n>> ELSE Str(n \div 10) \o <<48 + (n % 10)>>

\* a < b for str (lexicographic by code point)
RECURSIVE LexLess(_, _)
LexLess(a, b) ==
    IF Len(b) = 0 THEN FALSE
    ELSE IF Len(a) = 0 THEN TRUE
    ELSE IF a[1] # b[1] THEN a[1] < b[1]
    ELSE LexLess(Tail(a), Tail(b))

\* sorted(S) for a set of str
RECURSIVE Sorted(_)
Sorted(set) ==
    IF set = {} THEN <<>>
    ELSE LET m == CHOOSE x \in set : \A y \in set : y = x \/ LexLess(x, y)
         IN <<m>> \o Sorted(set \ {m})

\* index of the last occurrence of code c in s, 0 when absent (str.rfind + 1)
RECURSIVE RFind(_, _)
RFind(s, c) ==
    IF Len(s) = 0 THEN 0
    ELSE IF s[Len(s)] = c THEN Len(s)
    ELSE RFind(SubSeq(s, 1, Len(s) - 1), c)

\* PurePath(p).name: the last component (trailing separators dropped)
RECURSIVE PathName(_)
PathName(p) ==
    IF Len(p) > 0 /\ p[Len(p)] = 47 THEN PathName(SubSeq(p, 1, Len(p) - 1))
    ELSE SubSeq(p, RFind(p, 47) + 1, Len(p))
\* PurePath(p).suffix: from the last dot, unless it leads or ends the name
PathSuffix(p) ==
    LET n == PathName(p)
        i == RFind(n, 46)
    IN IF i > 1 /\ i < Len(n) THEN SubSeq(n, i, Len(n)) ELSE <<>>
\* PurePath(p).stem
PathStem(p) ==
    LET n == PathName(p)
        i == RFind(n, 46)
    IN IF i > 1 /\ i < Len(n) THEN SubSeq(n, 1, i - 1) ELSE n

SeqToSet(s) == {s[i] : i \in 1..Len(s)}

\* ------------------------------------------------------- XML element trees

\* xml.etree.ElementTree.Element: tag, the attributes the code reads (an absent
\* attribute reads as "", as attrib.get(k, "") does), children in document order.
Element(tag, type, translation, name, value, kids) ==
    [tag |-> tag, type |-> type, translation |-> translation,
     name |-> name, value |-> value, kids |-> kids]
Characteristic(type, translation, kids) ==
    Element("characteristic", type, translation, <<>>, <<>>, kids)
Parm(name, value) == Element("parm", <<>>, <<>>, name, value, <<>>)

\* A node is addressed by its path: the child indices from the root.
RECURSIVE NodeAt(_, _)
NodeAt(node, path) ==
    IF Len(path) = 0 THEN node ELSE NodeAt(node.kids[path[1]], Tail(path))

\* parent.remove(child), the child given by its path
RECURSIVE RemoveAt(_, _)
RemoveAt(node, path) ==
    IF Len(path) = 1
    THEN [node EXCEPT !.kids = SubSeq(node.kids, 1, path[1] - 1)
                               \o SubSeq(node.kids, path[1] + 1, Len(node.kids))]
    ELSE [node EXCEPT !.kids[path[1]] = RemoveAt(node.kids[path[1]], Tail(path))]

\* parent.append(child), the parent given by its path
RECURSIVE AppendAt(_, _, _)
AppendAt(node, path, child) ==
    IF Len(path) = 0
    THEN [node EXCEPT !.kids = Append(node.kids, child)]
    ELSE [node EXCEPT !.kids[path[1]] = AppendAt(node.kids[path[1]], Tail(path), child)]

\* element.set("value", v), the element given by its path
RECURSIVE SetValueAt(_, _, _)
SetValueAt(node, path, v) ==
    IF Len(path) = 0
    THEN [node EXCEPT !.value = v]
    ELSE [node EXCEPT !.kids[path[1]] = SetValueAt(node.kids[path[1]], Tail(path), v)]

RECURSIVE Flatten(_)
Flatten(seqs) == IF Len(seqs) = 0 THEN <<>> ELSE Head(seqs) \o Flatten(Tail(seqs))

PrefixAll(i, paths) == [k \in 1..Len(paths) |-> <<i>> \o paths[k]]

\* node.findall("./characteristic"): indices of the direct children
ChildCharacteristics(node) ==
    SelectSeq([i \in 1..Len(node.kids) |-> i],
              LAMBDA i : node.kids[i].tag = "characteristic")

\* node.findall("./characteristic[@type='t']")
ChildrenOfType(node, t) ==
    SelectSeq(ChildCharacteristics(node), LAMBDA i : node.kids[i].type = t)

\* node.findall("./parm[@name='n']")
ChildParms(node, n) ==
    SelectSeq([i \in 1..Len(node.kids) |-> i],
              LAMBDA i : node.kids[i].tag = "parm" /\ node.kids[i].name = n)

\* node.findall(".//characteristic"): paths of all descendants, document order
RECURSIVE DescendantCharacteristics(_)
DescendantCharacteristics(node) ==
    Flatten([i \in 1..Len(node.kids) |->
        (IF node.kids[i].tag = "characteristic" THEN << <<i>> >> ELSE <<>>)
        \o PrefixAll(i, DescendantCharacteristics(node.kids[i]))])

FirstOrNone(hits) == IF Len(hits) = 0 THEN None ELSE Some(hits[1])
Singletons(seq) == [j \in 1..Len(seq) |-> <<seq[j]>>]

\* root.find("./characteristic[@type='FileOperation']"): path, or None
FindFileOp(root) == FirstOrNone(Singletons(ChildrenOfType(root, Lit.FileOperation)))

\* node.findall("./characteristic[@type='t']/parm[@name='n']"), the
\* characteristic children given: paths below node, document order
ParmsBelow(node, chars, n) ==
    Flatten([k \in 1..Len(chars) |->
        PrefixAll(chars[k], Singletons(ChildParms(node.kids[chars[k]], n)))])

\* file_node.find("./characteristic[@type='Extract']/parm[@name='Source']"):
\* path below file_node, or None
FindExtractSource(file_node) ==
    FirstOrNone(ParmsBelow(file_node, ChildrenOfType(file_node, Lit.Extract), Lit.Source))

\* root.find("./characteristic[@type='Install']/parm[@name='NumFiles']")
FindNumFiles(root) ==
    FirstOrNone(ParmsBelow(root, ChildrenOfType(root, Lit.Install), Lit.NumFiles))

\* one triple (parent, file_node, extract) of iter_file_nodes, as paths from
\* the root; nothing when the file node has no Extract/Source parm
FileTriple(parent, file_node, extract) ==
    IF extract = None THEN <<>>
    ELSE << [parent |-> parent, file_node |-> file_node,
             extract |-> file_node \o extract[1]] >>

\* the inner loop of iter_file_nodes: the children of one parent
FileNodesOf(root, parent, files) ==
    Flatten([f \in 1..Len(files) |->
        FileTriple(parent, parent \o <<files[f]>>,
                   FindExtractSource(NodeAt(root, parent \o <<files[f]>>)))])

\* the outer loop of iter_file_nodes: every descendant of FileOperation
FileNodesUnder(root, parents) ==
    Flatten([p \in 1..Len(parents) |->
        FileNodesOf(root, parents[p], ChildCharacteristics(NodeAt(root, parents[p])))])

FileNodesFrom(root, fileop) ==
    IF fileop = None THEN <<>>
    ELSE FileNodesUnder(root,
            PrefixAll(fileop[1][1], DescendantCharacteristics(NodeAt(root, fileop[1]))))

\* iter_file_nodes: the triples (parent, file_node, extract) in document order
iter_file_nodes(root) == FileNodesFrom(root, FindFileOp(root))

SourceValue(root, triple) == NodeAt(root, triple.extract).value

RemoveFirst(root, hits) ==
    IF Len(hits) = 0 THEN [removed |-> FALSE, root |-> root]
    ELSE [removed |-> TRUE, root |-> RemoveAt(root, hits[1].file_node)]

\* a removal that looks for the file node only under the children of
\* FileOperation
remove_top_level_file_node(root, source_name) ==
    RemoveFirst(root, SelectSeq(
        IF FindFileOp(root) = None THEN <<>>
        ELSE FileNodesUnder(root, PrefixAll(FindFileOp(root)[1][1],
                Singletons(ChildCharacteristics(NodeAt(root, FindFileOp(root)[1]))))),
        LAMBDA t : Lower(SourceValue(root, t)) = Lower(source_name)))

\* remove_xml_file_node: [removed, root]; the first enumerated file node whose
\* Source value equals source_name ignoring case is removed from its parent
remove_xml_file_node(root, source_name) ==
    RemoveFirst(root, SelectSeq(iter_file_nodes(root),
        LAMBDA t : Lower(SourceValue(root, t)) = Lower(source_name)))

\* append_xml_file_node
append_xml_file_node(root, parent, display_name, source_name) ==
    AppendAt(root, parent,
        Characteristic(display_name, Lit.install,
            << Characteristic(Lit.Extract, <<>>, << Parm(Lit.Source, source_name) >>) >>))

TargetUnder(fileop, fo, named, inst) ==
    IF Len(named) > 0 THEN Some(fileop \o <<named[1]>>)
    ELSE IF Len(inst) > 0 THEN Some(fileop \o <<inst[1]>>)
    ELSE Some(fileop)

TargetFrom(fileop, fo, directory) ==
    TargetUnder(fileop, fo,
        IF Len(directory) > 0 THEN ChildrenOfType(fo, directory) ELSE <<>>,
        SelectSeq(ChildCharacteristics(fo), LAMBDA i : fo.kids[i].translation = Lit.install))

ResolveFrom(root, fileop, directory) ==
    IF fileop = None THEN None
    ELSE TargetFrom(fileop[1], NodeAt(root, fileop[1]), directory)

\* resolve_target_parent: path of the insertion parent, or None
resolve_target_parent(root, directory) == ResolveFrom(root, FindFileOp(root), directory)

\* ------------------------------------------------------ archive and payloads

\* A payload is either plain bytes or an XML document in some encoding; the
\* document's bytes are determined by its encoding and its tree.
NoTree == Element("", <<>>, <<>>, <<>>, <<>>, <<>>)
Raw(bytes) == [kind |-> "raw", bytes |-> bytes, enc |-> "", tree |-> NoTree]
\* ET.tostring(tree, encoding=enc) and its inverse, decode(enc) + ET.fromstring
XmlBytes(enc, tree) == [kind |-> "xml", bytes |-> <<>>, enc |-> enc, tree |-> tree]

RECURSIVE SumSeq(_)
SumSeq(ns) == IF Len(ns) = 0 THEN 0 ELSE Head(ns) + SumSeq(Tail(ns))
\* the length of the serialised tree, in characters
RECURSIVE TreeSize(_)
TreeSize(node) ==
    1 + Len(node.type) + Len(node.translation) + Len(node.name) + Len(node.value)
      + SumSeq([i \in 1..Len(node.kids) |-> TreeSize(node.kids[i])])
\* len(buf)
PayloadLen(p) ==
    IF p.kind = "raw" THEN Len(p.bytes)
    ELSE TreeSize(p.tree) * (IF p.enc = "utf-8" THEN 1 ELSE 2)

\* CabFile(buf, mtime=...)
CabFile(buf, mtime) == [buf |-> buf, mtime |-> mtime]

\* CabArchive is a dict: insertion-ordered, keys compared exactly.
KeySet(files) == {files[i].name : i \in 1..Len(files)}
Has(files, k) == \E i \in 1..Len(files) : files[i].name = k
Get(files, k) == files[CHOOSE i \in 1..Len(files) : files[i].name = k].file
\* archive[k] = f
Put(files, k, f) ==
    IF Has(files, k)
    THEN [i \in 1..Len(files) |->
            IF files[i].name = k THEN [name |-> k, file |-> f] ELSE files[i]]
    ELSE Append(files, [name |-> k, file |-> f])
\* del archive[k]
Del(files, k) == SelectSeq(files, LAMBDA x : x.name # k)

\* --------------------------------------------------------------- the disk

\* _setup.xml of d1.cab: two files under \Windows, NumFiles = 2
Manifest1 ==
    Element("wap-provisioningdoc", <<>>, <<>>, <<>>, <<>>, <<
        Characteristic(Lit.Install, <<>>, << Parm(Lit.NumFiles, Str(2)) >>),
        Characteristic(Lit.FileOperation, <<>>, <<
            Characteristic(Names.Windows, Lit.install, <<
                Characteristic(Names.a_txt, Lit.install, <<
                    Characteristic(Lit.Extract, <<>>, << Parm(Lit.Source, Names.A_TXT) >>) >>),
                Characteristic(Names.b_txt, Lit.install, <<
                    Characteristic(Lit.Extract, <<>>, << Parm(Lit.Source, Names.B_TXT) >>) >>)
            >>) >>) >>)

\* _setup.xml of d3.cab: an Install section and no FileOperation element
Manifest3 ==
    Element("wap-provisioningdoc", <<>>, <<>>, <<>>, <<>>, <<
        Characteristic(Lit.Install, <<>>, << Parm(Lit.NumFiles, Str(1)) >>) >>)

\* _setup.xml of d5.cab: no child of FileOperation is marked as an install
\* directory; under \Windows one file whose source is no entry of the CAB,
\* and an element Nope that holds the file of A.TXT one level deeper
Manifest5 ==
    Element("wap-provisioningdoc", <<>>, <<>>, <<>>, <<>>, <<
        Characteristic(Lit.Install, <<>>, << Parm(Lit.NumFiles, Str(1)) >>),
        Characteristic(Lit.FileOperation, <<>>, <<
            Characteristic(Names.Windows, <<>>, <<
                Characteristic(Names.b_txt, Lit.install, <<
                    Characteristic(Lit.Extract, <<>>, << Parm(Lit.Source, Names.B_TXT) >>) >>),
                Characteristic(Names.Nope, <<>>, <<
                    Characteristic(Names.a_txt, Lit.install, <<
                        Characteristic(Lit.Extract, <<>>,
                                       << Parm(Lit.Source, Names.A_TXT) >>) >>) >>)
            >>) >>) >>)

\* The CAB files that load() can be pointed at. parses: CabArchive(bytes)
\* accepts the bytes. The layout fields are those of the CFHEADER of the file.
Disk == [
    d1 |-> [path |-> Names.d1, parses |-> TRUE, set_id |-> 7,
            cb_cfheader |-> 2, cb_cffolder |-> 0, cb_cfdata |-> 0,
            header_reserve |-> <<9, 9>>,
            files |-> << [name |-> Lit.setup_xml,
                          file |-> CabFile(XmlBytes("utf-8", Manifest1), 0)],
                         [name |-> Names.A_TXT, file |-> CabFile(Raw(<<5>>), 0)],
                         [name |-> Names.B_TXT, file |-> CabFile(Raw(<<6, 6>>), 0)] >>],
    d2 |-> [path |-> Names.d2, parses |-> TRUE, set_id |-> 3,
            cb_cfheader |-> 0, cb_cffolder |-> 0, cb_cfdata |-> 0,
            header_reserve |-> <<>>,
            files |-> << [name |-> Names.A_TXT, file |-> CabFile(Raw(<<5>>), 0)] >>],
    d3 |-> [path |-> Names.d3, parses |-> TRUE, set_id |-> 4,
            cb_cfheader |-> 0, cb_cffolder |-> 0, cb_cfdata |-> 0,
            header_reserve |-> <<>>,
            files |-> << [name |-> Lit.setup_xml,
                          file |-> CabFile(XmlBytes("utf-16", Manifest3), 0)],
                         [name |-> Names.A_TXT, file |-> CabFile(Raw(<<5>>), 0)] >>],
    d4 |-> [path |-> Names.d4, parses |-> FALSE, set_id |-> 0,
            cb_cfheader |-> 0, cb_cffolder |-> 0, cb_cfdata |-> 0,
            header_reserve |-> <<>>, files |-> <<>>],
    d5 |-> [path |-> Names.d5, parses |-> TRUE, set_id |-> 5,
            cb_cfheader |-> 0, cb_cffolder |-> 0, cb_cfdata |-> 0,
            header_reserve |-> <<>>,
            files |-> << [name |-> Lit.setup_xml,
                          file |-> CabFile(XmlBytes("utf-8", Manifest5), 0)],
                         [name |-> Names.A_TXT, file |-> CabFile(Raw(<<5>>), 0)] >>] ]

\* --------------------------------------------------------------- CabEditor

VARIABLES
    path,              \* CabEditor.path: None or Some(path)
    loaded_name,       \* CabEditor.loaded_name
    archive,           \* CabEditor.archive: None or Some([set_id, files])
    xml_root,          \* CabEditor.xml_root: None or Some(element)
    setup_encoding,    \* CabEditor.setup_encoding
    records,           \* CabEditor.records
    directories,       \* CabEditor.directories
    signature_before,  \* CabEditor.signature_before: None ({}) or Some(status)
    now,               \* the wall clock, in seconds (dt.datetime.now())
    nops,              \* number of editor calls made so far
    last,              \* the last editor call: operation, arguments, outcome
    origin,            \* the disk file the current archive was parsed from
    clean,             \* only successful add_file/remove_file calls since a
                       \* successful load of a consistent archive/manifest pair
    wcab,              \* writer run: the CAB file B that is repacked
    warchive,          \* writer run: the archive parsed from B
    wtemplate,         \* writer run: parse_cab_layout(B): None or Some(template)
    wout,              \* writer run: the CAB written: None or Some(cab)
    wpc,               \* writer run: "idle", "input", "plain", "parsed" or "written"
    names_run,         \* a call of generate_source_name on its own: its
                       \* arguments, the clock during the call and the result
    web                \* the request threads: the WorkspaceManager, the lock
                       \* of each Workspace and each thread's place in its handler

vars == <<path, loaded_name, archive, xml_root, setup_encoding, records,
          directories, signature_before, now, nops, last, origin, clean,
          wcab, warchive, wtemplate, wout, wpc, names_run, web>>

evars == <<path, loaded_name, archive, xml_root, setup_encoding, records,
           directories, signature_before, now, nops, last, origin, clean>>
wvars == <<wcab, warchive, wtemplate, wout, wpc>>
nvars == <<names_run, web>>

\* The editor object as one value.
Editor ==
    [path |-> path, loaded_name |-> loaded_name, archive |-> archive,
     xml_root |-> xml_root, setup_encoding |-> setup_encoding,
     records |-> records, directories |-> directories,
     signature_before |-> signature_before]

\* CabEditor.__init__
NewEditor ==
    [path |-> None, loaded_name |-> Lit.default_name, archive |-> None,
     xml_root |-> None, setup_encoding |-> "utf-8", records |-> <<>>,
     directories |-> <<>>, signature_before |-> None]

\* bool(self.archive): a CabArchive is a dict, falsy when None or empty
ArchiveTruthy(e) == e.archive # None /\ Len(e.archive[1].files) > 0
Files(e) == e.archive[1].files
WithFiles(e, files) == [e EXCEPT !.archive = Some([e.archive[1] EXCEPT !.files = files])]

\* _require_archive: TRUE when it returns, FALSE when it raises "No CAB loaded"
\* a check for None only
LoadedAtAll(e) == e.archive # None

require_archive(e) == ArchiveTruthy(e)

\* raw.decode(encoding) followed by ET.fromstring(text) succeeds
Parses(buf, encoding) == buf.kind = "xml" /\ buf.enc = encoding

\* _load_setup_xml
SetupParsed(e0, raw, ok) ==
    IF Len(ok) = 0 THEN e0
    ELSE [e0 EXCEPT !.xml_root = Some(raw.tree), !.setup_encoding = ok[1]]

\* the encodings are tried in order and the first that parses is kept
SetupFrom(e0, raw) ==
    SetupParsed(e0, raw, SelectSeq(<<"utf-8", "utf-16", "utf-16le", "latin-1">>,
                                   LAMBDA enc : Parses(raw, enc)))

LoadSetupReset(e0) ==
    IF ~ArchiveTruthy(e0) \/ ~Has(Files(e0), Lit.setup_xml) THEN e0
    ELSE SetupFrom(e0, Get(Files(e0), Lit.setup_xml).buf)

load_setup_xml(e) ==
    LoadSetupReset([e EXCEPT !.xml_root = None, !.setup_encoding = "utf-8"])

\* format_cabfile_time: the date and the time of day, to the second
format_cabfile_time(cab_file) ==
    [date |-> cab_file.mtime \div 86400, time |-> cab_file.mtime % 86400]

CabRecord(display_name, source_name, cab_file, parent_type) ==
    [display_name |-> display_name, source_name |-> source_name,
     size |-> PayloadLen(cab_file.buf), modified |-> format_cabfile_time(cab_file),
     parent_type |-> parent_type]

\* _rebuild_index without a manifest: one record per archive entry
PlainRecords(files) ==
    [i \in 1..Len(files) |-> CabRecord(files[i].name, files[i].name, files[i].file, <<>>)]

\* the nodes _rebuild_index does not skip
Indexed(files, root, nodes) ==
    SelectSeq(nodes, LAMBDA t :
        /\ Len(NodeAt(root, t.file_node).type) > 0
        /\ Len(NodeAt(root, t.extract).value) > 0
        /\ Has(files, NodeAt(root, t.extract).value))

\* _rebuild_index with a manifest: the records of the nodes kept
ManifestRecords(files, root, keep) ==
    [i \in 1..Len(keep) |->
        CabRecord(NodeAt(root, keep[i].file_node).type,
                  NodeAt(root, keep[i].extract).value,
                  Get(files, NodeAt(root, keep[i].extract).value),
                  NodeAt(root, keep[i].parent).type)]

\* the directories view of _rebuild_index: the sorted parent types that start
\* with a backslash
DirectoriesOf(recs) ==
    Sorted({recs[i].parent_type : i \in
        {j \in 1..Len(recs) : Len(recs[j].parent_type) > 0 /\ recs[j].parent_type[1] = 92}})

WithIndex(e0, recs) == [e0 EXCEPT !.records = recs, !.directories = DirectoriesOf(recs)]

RebuildReset(e0) ==
    IF ~ArchiveTruthy(e0) THEN e0
    ELSE IF e0.xml_root = None THEN [e0 EXCEPT !.records = PlainRecords(Files(e0))]
    ELSE WithIndex(e0, ManifestRecords(Files(e0), e0.xml_root[1],
            Indexed(Files(e0), e0.xml_root[1], iter_file_nodes(e0.xml_root[1]))))

\* _rebuild_index
rebuild_index(e) == RebuildReset([e EXCEPT !.records = <<>>, !.directories = <<>>])

SetNumFiles(e, parm) ==
    IF parm = None THEN e
    ELSE [e EXCEPT !.xml_root =
            Some(SetValueAt(e.xml_root[1], parm[1], Str(Len(e.records))))]

\* _update_numfiles
update_numfiles(e) ==
    IF e.xml_root = None THEN e ELSE SetNumFiles(e, FindNumFiles(e.xml_root[1]))

\* a resync that writes the tree back in the encoding detected at load
sync_in_detected_encoding(e, t) ==
    IF ~ArchiveTruthy(e) \/ e.xml_root = None THEN e
    ELSE WithFiles(e, Put(Files(e), Lit.setup_xml,
                          CabFile(XmlBytes(e.setup_encoding, e.xml_root[1]), t)))

\* _sync_setup_xml at clock time t
sync_setup_xml(e, t) ==
    IF ~ArchiveTruthy(e) \/ e.xml_root = None THEN e
    ELSE WithFiles(e, Put(Files(e), Lit.setup_xml,
                          CabFile(XmlBytes("utf-8", e.xml_root[1]), t)))

\* werkzeug secure_filename: separators become spaces, whitespace runs become
\* one "_", characters outside [A-Za-z0-9_.-] are dropped, then strip("._")
RECURSIVE JoinWords(_)
JoinWords(s) ==
    IF Len(s) = 0 THEN <<>>
    ELSE IF IsSpace(s[1]) THEN <<95>> \o JoinWords(LStrip(s))
    ELSE <<s[1]>> \o JoinWords(Tail(s))
RECURSIVE StripDots(_)
StripDots(s) ==
    IF Len(s) > 0 /\ s[1] \in {46, 95} THEN StripDots(Tail(s))
    ELSE IF Len(s) > 0 /\ s[Len(s)] \in {46, 95}
    THEN StripDots(SubSeq(s, 1, Len(s) - 1))
    ELSE s
secure_filename(filename) ==
    StripDots(SelectSeq(
        JoinWords(Strip([i \in 1..Len(filename) |->
                            IF filename[i] = 47 THEN 32 ELSE filename[i]])),
        LAMBDA c : IsAlnum(c) \/ c \in {95, 46, 45}))

\* range(1, 1000) of generate_source_name ends at this index
LastIndex == 999

Candidate(stem, idx, ext) == stem \o <<126>> \o Str(idx) \o <<46>> \o ext

\* the last index the loop can reach: range(1, 1000) ends at LastIndex, and n
\* taken names cannot take more than n candidates, so the loop has returned by
\* index idx + n
LoopEnd(idx, existing_lower) ==
    IF idx + Cardinality(existing_lower) < LastIndex
    THEN idx + Cardinality(existing_lower) ELSE LastIndex
FirstOf(stem, ext, free) ==
    IF free = {} THEN None
    ELSE Some(Candidate(stem, CHOOSE i \in free : \A j \in free : i <= j, ext))
\* the loop, comparing the candidate as it is spelt
FirstUnfolded(stem, ext, idx, existing_lower) ==
    FirstOf(stem, ext, {i \in idx..LoopEnd(idx, existing_lower) :
                          Candidate(stem, i, ext) \notin existing_lower})
\* the loop of generate_source_name: Some(first free candidate), or None. The
\* loop runs idx upwards and returns at the first free candidate, which is the
\* candidate of the least free index.
FirstFree(stem, ext, idx, existing_lower) ==
    FirstOf(stem, ext, {i \in idx..LoopEnd(idx, existing_lower) :
                          Lower(Candidate(stem, i, ext)) \notin existing_lower})

OrDefault(s, default) == IF Len(s) = 0 THEN default ELSE s

\* the stem and the extension generate_source_name derives from the name
SourceStem(name) == Prefix(OrDefault(KeepAlnum(Upper(PathStem(name))), Lit.PYFILE), 6)
SourceExt(name) ==
    OrDefault(Prefix(KeepAlnum(Upper(SelectSeq(PathSuffix(name), LAMBDA c : c # 46))), 3),
              Lit.BIN)

Fallback(found, fallback, existing_lower) ==
    IF found # None THEN found
    ELSE IF Lower(fallback) \notin existing_lower THEN Some(fallback)
    ELSE None

GenerateFrom(name, existing_lower, t) ==
    Fallback(FirstFree(SourceStem(name), SourceExt(name), 1, existing_lower),
             Lit.PY \o Str(t) \o Lit.dotDAT, existing_lower)

\* generate_source_name at clock time t: Some(name), or None when it raises
generate_source_name(display_name, existing_lower, t) ==
    GenerateFrom(PathName(display_name), existing_lower, t)

\* ----------------------------------------------------- CabEditor operations
\* Each operation maps the editor to [e: the editor afterwards, result: "ok" or
\* the error raised, out: the value returned]. t is the clock during the call.

Outcome(e, result) == [e |-> e, result |-> result, out |-> None]

\* get_signature_status: the probe's possible outcomes. The subprocess call
\* raises when the probe cannot be started; otherwise a status is returned.
SignatureOutcomes == {"Valid", "Unknown", "raise"}

\* load, from the signature snapshot on
LoadSignature(e3, sig) ==
    IF sig = "raise" THEN Outcome(e3, "SignatureError")
    ELSE Outcome([e3 EXCEPT !.signature_before = Some(sig)], "ok")

\* load, from reading and parsing the file on
LoadArchive(e1, cab, sig) ==
    IF ~cab.parses THEN Outcome(e1, "StructuralDecode")
    ELSE LoadSignature(rebuild_index(load_setup_xml(
            [e1 EXCEPT !.archive = Some([set_id |-> cab.set_id, files |-> cab.files])])),
            sig)

\* (display_name or path.stem).strip(), then its stem or the default name
LoadedName(p) == OrDefault(PathStem(Strip(PathStem(p))), Lit.default_name)

\* CabEditor.load
load(e, d, sig) ==
    LoadArchive([e EXCEPT !.path = Some(Disk[d].path),
                          !.loaded_name = LoadedName(Disk[d].path)],
                Disk[d], sig)

\* update_file storing the payload before it looks at its length
update_then_check(e, source_name, payload, t) ==
    IF ~require_archive(e) THEN Outcome(e, "NotLoaded")
    ELSE IF ~Has(Files(e), source_name) THEN Outcome(e, "EntryMissing")
    ELSE Outcome(rebuild_index(
            WithFiles(e, Put(Files(e), source_name, CabFile(Raw(payload), t)))),
            IF Len(payload) = 0 THEN "EmptyPayload" ELSE "ok")

\* CabEditor.update_file
update_file(e, source_name, payload, t) ==
    IF ~require_archive(e) THEN Outcome(e, "NotLoaded")
    ELSE IF ~Has(Files(e), source_name) THEN Outcome(e, "EntryMissing")
    ELSE IF Len(payload) = 0 THEN Outcome(e, "EmptyPayload")
    ELSE Outcome(rebuild_index(
            WithFiles(e, Put(Files(e), source_name, CabFile(Raw(payload), t)))), "ok")

\* the manifest half of a mutation: _update_numfiles, _sync_setup_xml, and the
\* closing _rebuild_index
Finish(e, t) == rebuild_index(sync_setup_xml(update_numfiles(e), t))

\* remove_file, after remove_xml_file_node returned r
RemoveNode(e1, r, t) ==
    IF ~r.removed THEN Outcome(e1, "ManifestMismatch")
    ELSE Outcome(Finish([e1 EXCEPT !.xml_root = Some(r.root)], t), "ok")

\* remove_file, after the archive entry was deleted
RemoveMapping(e1, source_name, t) ==
    IF e1.xml_root = None THEN Outcome(rebuild_index(e1), "ok")
    ELSE RemoveNode(e1, remove_xml_file_node(e1.xml_root[1], source_name), t)

\* CabEditor.remove_file
remove_file(e, source_name, t) ==
    IF ~require_archive(e) THEN Outcome(e, "NotLoaded")
    ELSE RemoveMapping(IF Has(Files(e), source_name)
                       THEN WithFiles(e, Del(Files(e), source_name)) ELSE e,
                       source_name, t)

\* add_file, after resolve_target_parent returned target_parent
AddNode(e1, target_parent, final_name, source_name, t) ==
    IF target_parent = None THEN Outcome(e1, "ManifestMismatch")
    ELSE Outcome(Finish([e1 EXCEPT !.xml_root = Some(append_xml_file_node(
            e1.xml_root[1], target_parent[1], final_name, source_name))], t), "ok")

\* add_file, after the archive entry was inserted
AddMapping(e1, final_name, source_name, directory, t) ==
    IF e1.xml_root = None THEN Outcome(rebuild_index(e1), "ok")
    ELSE AddNode(e1, resolve_target_parent(e1.xml_root[1], directory),
                 final_name, source_name, t)

\* add_file, after generate_source_name returned source_name
AddEntry(e, payload, final_name, source_name, directory, t) ==
    IF source_name = None THEN Outcome(e, "NameExhausted")
    ELSE AddMapping(WithFiles(e, Put(Files(e), source_name[1], CabFile(Raw(payload), t))),
                    final_name, source_name[1], directory, t)

\* add_file, after the effective display name was chosen
AddNamed(e, payload, final_name, directory, t) ==
    IF Len(final_name) = 0 THEN Outcome(e, "NameRequired")
    ELSE AddEntry(e, payload, final_name,
                  generate_source_name(final_name, {Lower(k) : k \in KeySet(Files(e))}, t),
                  directory, t)

\* final_name = display_name.strip() if display_name else filename
FinalName(display_name, filename) ==
    IF Len(display_name) > 0 THEN Strip(display_name) ELSE filename

\* CabEditor.add_file
add_file(e, upload_filename, payload, display_name, directory, t) ==
    IF ~require_archive(e) THEN Outcome(e, "NotLoaded")
    ELSE IF Len(payload) = 0 THEN Outcome(e, "EmptyPayload")
    ELSE AddNamed(e, payload, FinalName(display_name, secure_filename(upload_filename)),
                  directory, t)

\* CabEditor.get_file_bytes
get_file_bytes(e, source_name) ==
    IF ~require_archive(e) THEN Outcome(e, "NotLoaded")
    ELSE IF ~Has(Files(e), source_name) THEN Outcome(e, "EntryMissing")
    ELSE [e |-> e, result |-> "ok", out |-> Some(Get(Files(e), source_name).buf)]

\* MS-DOS date and time of a CFFILE record: two-second resolution
DosStamp(mtime) == mtime \div 2

SavedFile(files, name) ==
    [name |-> name, size |-> PayloadLen(Get(files, name).buf),
     stamp |-> DosStamp(Get(files, name).mtime)]

SaveOrdered(arch, compress, order) ==
    [set_id |-> arch.set_id, cb_cfheader |-> 0, cb_cffolder |-> 0, cb_cfdata |-> 0,
     header_reserve |-> <<>>, compress |-> compress,
     cffiles |-> [i \in 1..Len(order) |-> SavedFile(arch.files, order[i])],
     data |-> [i \in 1..Len(order) |-> Get(arch.files, order[i]).buf]]

\* CabArchive.save(compress, sort) of the cabarchive package, which
\* build_cab_bytes calls: one folder, no reserved areas (flags 0), the set id
\* of the archive object, and the files in sorted key order when sort is set.
CabArchive_save(arch, compress, sort) ==
    SaveOrdered(arch, compress,
                IF sort THEN Sorted(KeySet(arch.files))
                ELSE [i \in 1..Len(arch.files) |-> arch.files[i].name])

BuildSynced(e1, compress) ==
    [e |-> e1, result |-> "ok", out |-> Some(CabArchive_save(e1.archive[1], compress, TRUE))]

\* a build that saves the archive as it stands
build_without_sync(e, compress, t) ==
    IF ~require_archive(e) THEN Outcome(e, "NotLoaded")
    ELSE BuildSynced(e, compress)

\* CabEditor.build_cab_bytes
build_cab_bytes(e, compress, t) ==
    IF ~require_archive(e) THEN Outcome(e, "NotLoaded")
    ELSE BuildSynced(IF e.xml_root # None THEN sync_setup_xml(e, t) ELSE e, compress)

\* ------------------------------------------------------------ CE CAB writer

\* A CAB file as its tables: the CFHEADER fields, the reserve bytes of each
\* CFFOLDER, and the CFFILE records (name, folder index, payload, time).
CabImage(set_id, cb_cfheader, cb_cffolder, cb_cfdata, header_reserve, folders, files) ==
    [set_id |-> set_id, cb_cfheader |-> cb_cfheader, cb_cffolder |-> cb_cffolder,
     cb_cfdata |-> cb_cfdata, header_reserve |-> header_reserve,
     folders |-> folders, files |-> files]

\* file_folders[name] = folder_idx over the file table: a later record of the
\* same name overwrites an earlier one
FileFolders(files) ==
    [n \in {files[i].name : i \in 1..Len(files)} |->
        files[CHOOSE i \in 1..Len(files) :
                /\ files[i].name = n
                /\ \A j \in (i + 1)..Len(files) : files[j].name # n].folder]

\* parse_cab_layout of a well-formed CAB: the CabLayoutTemplate
parse_cab_layout(cab) ==
    Some([set_id |-> cab.set_id,
          cb_cfheader |-> cab.cb_cfheader,
          cb_cffolder |-> cab.cb_cffolder,
          cb_cfdata |-> cab.cb_cfdata,
          header_reserve |-> cab.header_reserve,
          folder_reserves |-> [i \in 1..Len(cab.folders) |-> cab.folders[i].reserve],
          file_order |-> [i \in 1..Len(cab.files) |-> cab.files[i].name],
          file_folders |-> FileFolders(cab.files)])

\* CabArchive(bytes) of the same CAB: the dict of its files, in file-table order
ParsedArchive(cab) ==
    [set_id |-> cab.set_id,
     files |-> [i \in 1..Len(cab.files) |->
                  [name |-> cab.files[i].name,
                   file |-> CabFile(Raw(cab.files[i].buf), cab.files[i].mtime)]]]

\* the template build_ce_cab_bytes uses when it is given none
DefaultTemplate(arch) ==
    [set_id |-> arch.set_id, cb_cfheader |-> 0, cb_cffolder |-> 0, cb_cfdata |-> 0,
     header_reserve |-> <<>>, folder_reserves |-> <<>>, file_order |-> <<>>,
     file_folders |-> [n \in {} |-> 0]]

\* _order_names: template order for the names still present, then the rest.
\* names is a Python set: unsorted, the extras come in the set's iteration
\* order, which the caller does not control (iteration lists names that way).
OrderedWith(names, kept, sort, iteration) ==
    kept \o (IF sort THEN Sorted(names \ SeqToSet(kept))
             ELSE SelectSeq(iteration, LAMBDA n : n \notin SeqToSet(kept)))

\* the first occurrence of each name of file_order that is in names
RECURSIVE KeepPresent(_, _)
KeepPresent(file_order, names) ==
    IF Len(file_order) = 0 THEN <<>>
    ELSE IF Head(file_order) \in names
    THEN <<Head(file_order)>> \o KeepPresent(Tail(file_order), names \ {Head(file_order)})
    ELSE KeepPresent(Tail(file_order), names)

order_names(arch, template, sort, iteration) ==
    OrderedWith(KeySet(arch.files),
                IF template = None THEN <<>>
                ELSE KeepPresent(template[1].file_order, KeySet(arch.files)),
                sort, iteration)

\* max(values, default=-1)
MaxOf(set) == IF set = {} THEN -1 ELSE CHOOSE m \in set : \A x \in set : x <= m

\* the same loop with one key for all the names the template does not have
RECURSIVE FolderKeysShared(_, _, _)
FolderKeysShared(ordered_names, file_folders, next_key) ==
    IF Len(ordered_names) = 0 THEN <<>>
    ELSE <<IF Head(ordered_names) \in DOMAIN file_folders
           THEN file_folders[Head(ordered_names)] ELSE next_key>>
         \o FolderKeysShared(Tail(ordered_names), file_folders, next_key)

\* the first loop of _build_folders: the folder key of each ordered name
RECURSIVE FolderKeys(_, _, _)
FolderKeys(ordered_names, file_folders, next_key) ==
    IF Len(ordered_names) = 0 THEN <<>>
    ELSE IF Head(ordered_names) \in DOMAIN file_folders
    THEN <<file_folders[Head(ordered_names)]>>
         \o FolderKeys(Tail(ordered_names), file_folders, next_key)
    ELSE <<next_key>> \o FolderKeys(Tail(ordered_names), file_folders, next_key + 1)

\* keyed.keys(): the keys in the order they first appear
RECURSIVE FirstAppearance(_)
FirstAppearance(keys) ==
    IF Len(keys) = 0 THEN <<>>
    ELSE <<Head(keys)>> \o FirstAppearance(SelectSeq(Tail(keys), LAMBDA k : k # Head(keys)))

Zeros(n) == [i \in 1..n |-> 0]

\* the reserve bytes of the folder of one key, fitted to cb_cffolder
FitReserve(reserve, cb_cffolder) ==
    Prefix(reserve \o Zeros(IF Len(reserve) < cb_cffolder
                            THEN cb_cffolder - Len(reserve) ELSE 0), cb_cffolder)
FolderReserve(key, template) ==
    FitReserve(IF key >= 0 /\ key < Len(template.folder_reserves)
               THEN template.folder_reserves[key + 1]
               ELSE Zeros(template.cb_cffolder), template.cb_cffolder)

\* _chunkify(raw, 0x8000)
ChunkSize == 32768
RECURSIVE Chunkify(_)
Chunkify(raw) ==
    IF Len(raw) = 0 THEN <<>>
    ELSE <<Prefix(raw, ChunkSize)>> \o Chunkify(SubSeq(raw, ChunkSize + 1, Len(raw)))

\* one block: (encoded, len(plain)); a compressed block is "CK" and the
\* deflated chunk
\* len(b"CK" + z.compress(plain) + z.flush()): a raw deflate stream is never
\* empty, and its length is a function of the chunk
DeflatedSize(plain) == 2 + 2 + Len(plain) \div 2
BlocksOf(chunks, compress) ==
    [i \in 1..Len(chunks) |->
        [ck |-> compress, body |-> chunks[i], plain_size |-> Len(chunks[i]),
         encoded_size |-> IF compress THEN DeflatedSize(chunks[i]) ELSE Len(chunks[i])]]

RawOf(arch, names) == Flatten([i \in 1..Len(names) |-> Get(arch.files, names[i]).buf.bytes])

\* one _FolderBuild
FolderBuild(arch, key, names, template, compress) ==
    [folder_key |-> key, names |-> names, reserve |-> FolderReserve(key, template),
     blocks |-> BlocksOf(IF Len(Chunkify(RawOf(arch, names))) = 0 THEN << <<>> >>
                         ELSE Chunkify(RawOf(arch, names)), compress)]

FoldersKeyed(arch, ordered_names, keys, order, template, compress) ==
    [f \in 1..Len(order) |->
        FolderBuild(arch, order[f],
            [j \in 1..Len(SelectSeq([i \in 1..Len(keys) |-> i], LAMBDA i : keys[i] = order[f])) |->
                ordered_names[SelectSeq([i \in 1..Len(keys) |-> i],
                                        LAMBDA i : keys[i] = order[f])[j]]],
            template, compress)]

FoldersFrom(arch, ordered_names, keys, template, compress) ==
    FoldersKeyed(arch, ordered_names, keys, FirstAppearance(keys), template, compress)

\* _build_folders
build_folders(arch, ordered_names, template, compress) ==
    FoldersFrom(arch, ordered_names,
        FolderKeys(ordered_names, template.file_folders,
                   MaxOf({template.file_folders[n] : n \in DOMAIN template.file_folders}) + 1),
        template, compress)

\* folder_index_by_name[name]: the position of the (last) folder holding it
FolderIndex(folder_builds, name) ==
    (CHOOSE f \in 1..Len(folder_builds) :
        /\ name \in SeqToSet(folder_builds[f].names)
        /\ \A g \in (f + 1)..Len(folder_builds) :
              name \notin SeqToSet(folder_builds[g].names)) - 1

\* _build_uncompressed_offsets: the offset of names[k] within its folder
IndexOf(seq, x) == CHOOSE i \in 1..Len(seq) : seq[i] = x
UncompressedOffset(arch, folder, name) ==
    SumSeq([i \in 1..(IndexOf(folder.names, name) - 1) |->
              PayloadLen(Get(arch.files, folder.names[i]).buf)])

\* one CFFILE record of _build_cffile_blob
CfFile(arch, folder_builds, name, ifolder) ==
    [name |-> name,
     size |-> PayloadLen(Get(arch.files, name).buf),
     uoff |-> UncompressedOffset(arch, folder_builds[ifolder + 1], name),
     ifolder |-> ifolder,
     stamp |-> DosStamp(Get(arch.files, name).mtime)]

\* struct.calcsize of FMT_CFHEADER, FMT_CFHEADER_RESERVE, FMT_CFFOLDER,
\* FMT_CFFILE and FMT_CFDATA
CfHeaderSize == 36
CfReserveSize == 4
CfFolderSize == 8
CfFileSize == 16
CfDataSize == 8

\* use_reserve
UseReserve(template) ==
    template.cb_cfheader # 0 \/ template.cb_cffolder # 0 \/ template.cb_cfdata # 0
        \/ Len(template.header_reserve) # 0

\* header_size
HeaderSize(template) ==
    CfHeaderSize + (IF UseReserve(template) THEN CfReserveSize + template.cb_cfheader ELSE 0)
\* a folder table sized without the per-folder reserve
CoffFilesWithoutReserve(folder_builds, template) ==
    HeaderSize(template) + Len(folder_builds) * CfFolderSize
\* coff_files = header_size + folder_table_size
CoffFiles(folder_builds, template) ==
    HeaderSize(template) + Len(folder_builds) * (CfFolderSize + template.cb_cffolder)
\* len(cffile_blob): each record, the encoded name and its terminator
CfFileBlobSize(ordered_names) ==
    SumSeq([i \in 1..Len(ordered_names) |-> CfFileSize + Len(ordered_names[i]) + 1])
\* block_bytes of one folder
BlockBytes(folder, cb_cfdata) ==
    SumSeq([b \in 1..Len(folder.blocks) |->
              CfDataSize + cb_cfdata + folder.blocks[b].encoded_size])
\* cursor when the folder at position f is reached
Cursor(folder_builds, f, cfdata_start, cb_cfdata) ==
    cfdata_start + SumSeq([g \in 1..(f - 1) |-> BlockBytes(folder_builds[g], cb_cfdata)])
\* len(cffolder_blob) and len(cfdata_blob): what the loops append
CfFolderBlobSize(folder_builds, cb_cffolder) ==
    SumSeq([f \in 1..Len(folder_builds) |->
              CfFolderSize + (IF cb_cffolder # 0 THEN Len(folder_builds[f].reserve) ELSE 0)])
CfDataBlobSize(folder_builds, cb_cfdata) ==
    SumSeq([f \in 1..Len(folder_builds) |->
              SumSeq([b \in 1..Len(folder_builds[f].blocks) |->
                        CfDataSize + (IF cb_cfdata # 0 THEN cb_cfdata ELSE 0)
                        + folder_builds[f].blocks[b].encoded_size])])

\* one CFFOLDER record of _build_folder_and_data_blobs
CfFolder(folder, cursor, cb_cffolder, compress) ==
    [coff_data |-> cursor,
     nblocks |-> Len(folder.blocks),
     compression_type |-> IF compress THEN 1 ELSE 0,
     reserve |-> IF cb_cffolder # 0 THEN folder.reserve ELSE <<>>]

\* the CAB build_ce_cab_bytes emits, as its tables
CabWritten(arch, ordered_names, folder_builds, template, compress) ==
    [cabinet_size |-> HeaderSize(template)
                        + CfFolderBlobSize(folder_builds, template.cb_cffolder)
                        + CfFileBlobSize(ordered_names)
                        + CfDataBlobSize(folder_builds, template.cb_cfdata),
     coff_files |-> CoffFiles(folder_builds, template),
     set_id |-> template.set_id,
     flags |-> IF UseReserve(template) THEN 4 ELSE 0,
     cb_cfheader |-> IF UseReserve(template) THEN template.cb_cfheader ELSE 0,
     cb_cffolder |-> IF UseReserve(template) THEN template.cb_cffolder ELSE 0,
     cb_cfdata |-> IF UseReserve(template) THEN template.cb_cfdata ELSE 0,
     header_reserve |-> IF UseReserve(template)
                        THEN FitReserve(template.header_reserve, template.cb_cfheader)
                        ELSE <<>>,
     folders |-> [f \in 1..Len(folder_builds) |->
                    CfFolder(folder_builds[f],
                             Cursor(folder_builds, f,
                                    CoffFiles(folder_builds, template)
                                    + CfFileBlobSize(ordered_names),
                                    template.cb_cfdata),
                             template.cb_cffolder, compress)],
     cffiles |-> [i \in 1..Len(ordered_names) |->
                    CfFile(arch, folder_builds, ordered_names[i],
                           FolderIndex(folder_builds, ordered_names[i]))],
     blocks |-> [f \in 1..Len(folder_builds) |-> folder_builds[f].blocks]]

BuildOrdered(arch, ordered_names, template, compress) ==
    IF Len(ordered_names) = 0 THEN None
    ELSE Some(CabWritten(arch, ordered_names,
                         build_folders(arch, ordered_names, template, compress),
                         template, compress))

\* build_ce_cab_bytes: Some(cab), or None when it raises "CAB cannot be empty"
build_ce_cab_bytes(arch, compress, template, sort, iteration) ==
    BuildOrdered(arch, order_names(arch, template, sort, iteration),
                 IF template = None THEN DefaultTemplate(arch) ELSE template[1], compress)

\* CabArchive(bytes) of a CAB the writer emitted: the files in file-table
\* order, each payload cut from the data of its folder at its offset
CabArchive_parse(cab) ==
    [set_id |-> cab.set_id,
     files |-> [i \in 1..Len(cab.cffiles) |->
        [name |-> cab.cffiles[i].name,
         file |-> CabFile(
            Raw(SubSeq(Flatten([b \in 1..Len(cab.blocks[cab.cffiles[i].ifolder + 1]) |->
                                  cab.blocks[cab.cffiles[i].ifolder + 1][b].body]),
                       cab.cffiles[i].uoff + 1,
                       cab.cffiles[i].uoff + cab.cffiles[i].size)),
            cab.cffiles[i].stamp * 2)]]]

\* ------------------------------------------------------------ inputs

\* source names callers pass: keys, a key in another letter case, the manifest
\* entry itself, a name that is nowhere
SourceArgs(e) ==
    {Names.A_TXT, Names.a_txt, Lit.setup_xml, Names.NOPE_BIN}
    \cup (IF e.archive = None THEN {} ELSE KeySet(Files(e)))

\* ------------------------------------------------------------ the actions

\* Source values the manifest enumerates, and archive keys other than _setup.xml
ManifestSources(e) ==
    IF e.xml_root = None THEN {}
    ELSE {SourceValue(e.xml_root[1], t) : t \in SeqToSet(iter_file_nodes(e.xml_root[1]))}
PayloadKeys(e) ==
    IF e.archive = None THEN {} ELSE KeySet(Files(e)) \ {Lit.setup_xml}
Consistent(e) == e.xml_root # None /\ ManifestSources(e) = PayloadKeys(e)

\* whether the call keeps the behaviour one of successful add_file and
\* remove_file calls after a successful load of a consistent pair
CleanAfter(op, r) ==
    IF op = "load" THEN r.result = "ok" /\ Consistent(r.e)
    ELSE clean /\ op \in {"add_file", "remove_file"} /\ r.result = "ok"

\* the call r of operation op takes effect
Apply(op, arg, given, compress, r) ==
    /\ path' = r.e.path
    /\ loaded_name' = r.e.loaded_name
    /\ archive' = r.e.archive
    /\ xml_root' = r.e.xml_root
    /\ setup_encoding' = r.e.setup_encoding
    /\ records' = r.e.records
    /\ directories' = r.e.directories
    /\ signature_before' = r.e.signature_before
    /\ nops' = nops + 1
    /\ last' = [op |-> op, arg |-> arg, given |-> given, compress |-> compress,
                result |-> r.result, out |-> r.out]
    /\ clean' = CleanAfter(op, r)
    /\ wpc = "idle"
    /\ names_run.pc = "idle"
    /\ UNCHANGED <<wvars, nvars>>

\* no writer run is in progress
NoCab == CabImage(0, 0, 0, 0, <<>>, <<>>, <<>>)
WriterIdle ==
    /\ wcab = NoCab
    /\ warchive = ParsedArchive(NoCab)
    /\ wtemplate = None
    /\ wout = None
    /\ wpc = "idle"

EditorInit ==
    /\ path = NewEditor.path
    /\ loaded_name = NewEditor.loaded_name
    /\ archive = NewEditor.archive
    /\ xml_root = NewEditor.xml_root
    /\ setup_encoding = NewEditor.setup_encoding
    /\ records = NewEditor.records
    /\ directories = NewEditor.directories
    /\ signature_before = NewEditor.signature_before
    /\ now = 0
    /\ nops = 0
    /\ last = [op |-> "init", arg |-> <<>>, given |-> <<>>, compress |-> FALSE, result |-> "ok", out |-> None]
    /\ origin = "none"
    /\ clean = FALSE

\* no call of generate_source_name on its own is under way
NamesIdle ==
    names_run = [pc |-> "idle", display_name |-> <<>>, existing_lower |-> {}, t |-> 0,
                 result |-> None]

\* request threads, sessions, Workspace objects ever made, and clock ticks of
\* a run of the handlers
MaxThreads == 2
MaxSessions == 2
MaxWorkspaces == 3
MaxWebClock == 2

Threads == 1..MaxThreads
Sessions == 1..MaxSessions

\* a thread that serves no request
NoRequest == [pc |-> "idle", session |-> 0, ws |-> 0, todo |-> <<>>, op |-> ""]

\* WorkspaceManager(ttl): no workspace in _state; no Workspace made, no lock
\* held (0: nobody); prev records the workspace current() returned last for
\* each session (0: none yet)
Manager(run, ttl) ==
    [run |-> run, ttl |-> ttl, clock |-> 0, made |-> 0,
     state |-> [s \in Sessions |-> 0],
     prev |-> [s \in Sessions |-> 0],
     last_access |-> [w \in 1..MaxWorkspaces |-> 0],
     owner |-> [w \in 1..MaxWorkspaces |-> 0],
     th |-> [t \in Threads |-> NoRequest]]

\* no handler runs
WebIdle == web = Manager(FALSE, 0)

Init == EditorInit /\ WriterIdle /\ NamesIdle /\ WebIdle

Load(d, sig) ==
    /\ nops < MaxOps
    /\ Apply("load", Disk[d].path, <<>>, FALSE, load(Editor, d, sig))
    /\ origin' = IF Disk[d].parses THEN d ELSE origin
    /\ UNCHANGED now

UpdateFile(source_name, payload) ==
    /\ nops < MaxOps
    /\ Apply("update_file", source_name, <<payload>>, FALSE,
             update_file(Editor, source_name, payload, now))
    /\ UNCHANGED <<now, origin>>

RemoveFile(source_name) ==
    /\ nops < MaxOps
    /\ Apply("remove_file", source_name, <<>>, FALSE, remove_file(Editor, source_name, now))
    /\ UNCHANGED <<now, origin>>

AddFile(upload_filename, payload, display_name, directory) ==
    /\ nops < MaxOps
    /\ Apply("add_file", directory, <<upload_filename, display_name, payload>>, FALSE,
             add_file(Editor, upload_filename, payload, display_name, directory, now))
    /\ UNCHANGED <<now, origin>>

GetFileBytes(source_name) ==
    /\ nops < MaxOps
    /\ Apply("get_file_bytes", source_name, <<>>, FALSE, get_file_bytes(Editor, source_name))
    /\ UNCHANGED <<now, origin>>

BuildCabBytes(compress) ==
    /\ nops < MaxOps
    /\ Apply("build_cab_bytes", <<>>, <<>>, compress, build_cab_bytes(Editor, compress, now))
    /\ UNCHANGED <<now, origin>>

\* time passes between calls
Tick ==
    /\ now < MaxClock
    /\ wpc = "idle"
    /\ names_run.pc = "idle"
    /\ now' = now + 1
    /\ UNCHANGED <<path, loaded_name, archive, xml_root, setup_encoding, records,
                   directories, signature_before, nops, last, origin, clean>>
    /\ UNCHANGED <<wvars, nvars>>

Next ==
    \/ \E d \in DOMAIN Disk, sig \in SignatureOutcomes : Load(d, sig)
    \/ \E source_name \in SourceArgs(Editor), payload \in {<<>>, <<1>>} :
          UpdateFile(source_name, payload)
    \/ \E source_name \in SourceArgs(Editor) : RemoveFile(source_name)
    \/ \E f \in {Names.x_bin, <<46>>}, payload \in {<<>>, <<1>>},
          display_name \in {<<>>, Names.Readme_txt, <<32>>},
          directory \in {<<>>, Names.Nope} :
          AddFile(f, payload, display_name, directory)
    \/ \E source_name \in SourceArgs(Editor) : GetFileBytes(source_name)
    \/ \E compress \in BOOLEAN : BuildCabBytes(compress)
    \/ Tick

Spec == Init /\ [][Next]_vars

\* ------------------------------------------------- a run of the CE writer

\* files per CAB, and folders per CAB
MaxFiles == 3
MaxFolders == 2

\* the sequences of n distinct elements of set
Arrangements(set, n) ==
    {p \in [1..n -> set] : \A i, j \in 1..n : i # j => p[i] # p[j]}

\* the CAB with the given file order, folder of each file and reserved areas;
\* folder i carries the reserve byte 10 + i; x.bin is one byte longer than a
\* data block, the other files are two bytes long
MakeCab(names, folder_of, nfolders, layout) ==
    CabImage(7, layout.cb_cfheader, layout.cb_cffolder, layout.cb_cfdata,
             layout.header_reserve,
             [f \in 1..nfolders |-> [reserve |-> [k \in 1..layout.cb_cffolder |-> 10 + f]]],
             [i \in 1..Len(names) |->
                [name |-> names[i], folder |-> folder_of[i],
                 buf |-> IF names[i] = Names.x_bin THEN [k \in 1..(ChunkSize + 1) |-> 0]
                         ELSE <<Len(names[i]), names[i][1]>>,
                 mtime |-> 0]])

\* the well-formed CABs of the run: every folder index is that of a folder of
\* the folder table, and every folder holds at least one file; the reserved
\* areas are absent, or a header reserve and one byte per folder, or one byte
\* per data block
WriterCabs ==
    UNION {UNION {UNION { {MakeCab(names, folder_of, nfolders, layout) : layout \in
            {[cb_cfheader |-> 0, cb_cffolder |-> 0, cb_cfdata |-> 0, header_reserve |-> <<>>],
             [cb_cfheader |-> 2, cb_cffolder |-> 1, cb_cfdata |-> 0,
              header_reserve |-> <<9, 9>>],
             [cb_cfheader |-> 0, cb_cffolder |-> 0, cb_cfdata |-> 1, header_reserve |-> <<>>]}}
        : folder_of \in {g \in [1..n -> 0..(nfolders - 1)] :
                            \A f \in 0..(nfolders - 1) : \E i \in 1..n : g[i] = f}}
        : names \in Arrangements({Names.A_TXT, Names.B_TXT, Names.x_bin}, n)}
        : <<n, nfolders>> \in (1..MaxFiles) \X (1..MaxFolders)}

WriterInit ==
    /\ EditorInit
    /\ NamesIdle
    /\ WebIdle
    /\ wcab \in WriterCabs
    /\ warchive = ParsedArchive(wcab)
    /\ wtemplate = None
    /\ wout = None
    /\ wpc = "input"

\* T = parse_cab_layout(B)
ParseLayout ==
    /\ wpc = "input"
    /\ wtemplate' = parse_cab_layout(wcab)
    /\ wpc' = "parsed"
    /\ UNCHANGED <<wcab, warchive, wout>>
    /\ UNCHANGED <<evars, nvars>>

\* the caller has no template: build_ce_cab_bytes is given template=None
NoLayout ==
    /\ wpc = "input"
    /\ wpc' = "plain"
    /\ UNCHANGED <<wcab, warchive, wtemplate, wout>>
    /\ UNCHANGED <<evars, nvars>>

\* the caller passes an archive without entries: CabArchive()
EmptyArchive ==
    /\ wpc \in {"parsed", "plain"}
    /\ warchive.files # <<>>
    /\ warchive' = [warchive EXCEPT !.files = <<>>]
    /\ UNCHANGED <<wcab, wtemplate, wout, wpc>>
    /\ UNCHANGED <<evars, nvars>>

\* build_ce_cab_bytes(archive, compress, T, sort)
WriteCab(compress, sort, iteration) ==
    /\ wpc \in {"parsed", "plain"}
    /\ wout' = build_ce_cab_bytes(warchive, compress, wtemplate, sort, iteration)
    /\ wpc' = "written"
    /\ UNCHANGED <<wcab, warchive, wtemplate>>
    /\ UNCHANGED <<evars, nvars>>

WriterNext ==
    \/ ParseLayout
    \/ NoLayout
    \/ EmptyArchive
    \/ \E compress \in BOOLEAN, sort \in BOOLEAN,
          iteration \in Arrangements(KeySet(warchive.files), Len(warchive.files)) :
          WriteCab(compress, sort, iteration)

SpecWriter == WriterInit /\ [][WriterNext]_vars

\* del archive[name], for a name of the CAB and while no other was deleted
RemoveName(name) ==
    /\ wpc = "parsed"
    /\ Has(warchive.files, name)
    /\ \A i \in 1..Len(wcab.files) : Has(warchive.files, wcab.files[i].name)
    /\ warchive' = [warchive EXCEPT !.files = Del(@, name)]
    /\ UNCHANGED <<wcab, wtemplate, wout, wpc>>
    /\ UNCHANGED <<evars, nvars>>

\* archive[name] = CabFile(...), for a name the CAB does not have
AddName(name) ==
    /\ wpc = "parsed"
    /\ ~Has(warchive.files, name)
    /\ warchive' = [warchive EXCEPT
          !.files = Put(@, name, CabFile(Raw(<<Len(name), name[1]>>), 0))]
    /\ UNCHANGED <<wcab, wtemplate, wout, wpc>>
    /\ UNCHANGED <<evars, nvars>>

\* the CABs of a repack: one to three short files in one or two folders, each
\* folder holding a file, without reserved areas or with a header reserve and
\* one reserve byte per folder
RepackCabs ==
    UNION {UNION {UNION { {MakeCab(names, folder_of, nfolders, layout) : layout \in
            {[cb_cfheader |-> 0, cb_cffolder |-> 0, cb_cfdata |-> 0, header_reserve |-> <<>>],
             [cb_cfheader |-> 2, cb_cffolder |-> 1, cb_cfdata |-> 0,
              header_reserve |-> <<9, 9>>]}}
        : folder_of \in {g \in [1..n -> 0..(nfolders - 1)] :
                            \A f \in 0..(nfolders - 1) : \E i \in 1..n : g[i] = f}}
        : names \in Arrangements({Names.A_TXT, Names.B_TXT, Names.a_txt}, n)}
        : <<n, nfolders>> \in (1..MaxFiles) \X (1..MaxFolders)}

RepackInit ==
    /\ EditorInit
    /\ NamesIdle
    /\ WebIdle
    /\ wcab \in RepackCabs
    /\ warchive = ParsedArchive(wcab)
    /\ wtemplate = None
    /\ wout = None
    /\ wpc = "input"

\* the archive's keys in insertion order
KeyOrder(files) == [i \in 1..Len(files) |-> files[i].name]

\* a repack: the layout is parsed, the archive edited and then written; the
\* set of names iterates in insertion order or in the reverse order
RepackNext ==
    \/ ParseLayout
    \/ \E name \in {Names.A_TXT, Names.B_TXT, Names.a_txt} : RemoveName(name)
    \/ \E name \in {Names.NOPE_BIN, Names.Readme_txt} : AddName(name)
    \/ \E compress \in BOOLEAN, sort \in BOOLEAN,
          iteration \in {KeyOrder(warchive.files),
                         [i \in 1..Len(warchive.files) |->
                            warchive.files[Len(warchive.files) + 1 - i].name]} :
          WriteCab(compress, sort, iteration)

\* the writer called after removals from and additions to the archive
SpecRepack == RepackInit /\ [][RepackNext]_vars

\* the editor, and the writer called on its own
SpecBuild == (Init \/ WriterInit) /\ [][Next \/ WriterNext]_vars

\* ------------------------------------- generate_source_name on its own

\* the lower-cased candidates 1..k of a display name
Taken(display_name, k) ==
    {Lower(Candidate(SourceStem(PathName(display_name)), i,
                     SourceExt(PathName(display_name)))) : i \in 1..k}

\* the sets of taken names a call can meet: none, the first candidate, the
\* second, both, every candidate, and every candidate and the fallback of
\* clock time 0
ExistingSets(display_name) ==
    {{}, Taken(display_name, 1), Taken(display_name, 2) \ Taken(display_name, 1),
     Taken(display_name, 2), Taken(display_name, LastIndex),
     Taken(display_name, LastIndex) \cup {Lower(Lit.PY \o Str(0) \o Lit.dotDAT)}}

NamesInit ==
    /\ EditorInit
    /\ WriterIdle
    /\ WebIdle
    /\ names_run \in
          {[pc |-> "input", display_name |-> n, existing_lower |-> ex, t |-> 0,
            result |-> None] :
             <<n, ex>> \in UNION {{n} \X ExistingSets(n) :
                                    n \in {Names.Readme_txt, Names.x_bin, Names.Nope}}}

\* generate_source_name(display_name, existing_lower) at clock time t
GenerateSourceName(t) ==
    /\ names_run.pc = "input"
    /\ names_run' = [names_run EXCEPT
          !.pc = "done", !.t = t,
          !.result = generate_source_name(names_run.display_name,
                                          names_run.existing_lower, t)]
    /\ UNCHANGED <<evars, wvars, web>>

NamesNext == \E t \in 0..MaxClock : GenerateSourceName(t)

\* the editor, and generate_source_name called on its own
SpecNames == (Init \/ NamesInit) /\ [][Next \/ NamesNext]_vars

\* -------------------------------------------- the handlers of routes.py

\* the editor calls each handler makes inside "with workspace.lock", in order:
\* index renders the editor's records, download_file reads the records and
\* then the payload, add_file makes one call per upload
Calls ==
    [index |-> <<"render">>, load_cab |-> <<"load">>, update_file |-> <<"update_file">>,
     remove_file |-> <<"remove_file">>, add_file |-> <<"add_file", "add_file">>,
     download_file |-> <<"records", "get_file_bytes">>,
     save_cab |-> <<"build_cab_bytes">>]

WebInit ==
    /\ EditorInit
    /\ WriterIdle
    /\ NamesIdle
    /\ web \in {Manager(TRUE, ttl) : ttl \in 0..1}

\* a request of a session reaches a handler in thread t
Request(t, route, session) ==
    /\ web.run
    /\ web.th[t].pc = "idle"
    /\ web' = [web EXCEPT !.th[t] = [pc |-> "start", session |-> session, ws |-> 0,
                                     todo |-> Calls[route], op |-> ""]]
    /\ UNCHANGED <<evars, wvars, names_run>>

\* _purge_expired: _state without the workspaces last accessed before cutoff
Purged(state, last_access, cutoff) ==
    [s \in Sessions |->
        IF state[s] # 0 /\ last_access[state[s]] < cutoff THEN 0 ELSE state[s]]

\* the rest of current(): the session's workspace w, made now when fresh, is
\* stored, touched and returned to the thread
Returned(t, state, fresh, w) ==
    [web EXCEPT !.state = [state EXCEPT ![web.th[t].session] = w],
                !.prev[web.th[t].session] = w,
                !.made = IF fresh THEN w ELSE @,
                !.last_access[w] = web.clock,
                !.th[t].ws = w,
                !.th[t].pc = "wait"]

CurrentFrom(t, state) ==
    /\ state[web.th[t].session] = 0 => web.made < MaxWorkspaces
    /\ web' = Returned(t, state, state[web.th[t].session] = 0,
                       IF state[web.th[t].session] = 0 THEN web.made + 1
                       ELSE state[web.th[t].session])

\* workspace = workspace_manager.current(), one step under the manager's lock
Current(t) ==
    /\ web.th[t].pc = "start"
    /\ CurrentFrom(t, Purged(web.state, web.last_access, web.clock - web.ttl))
    /\ UNCHANGED <<evars, wvars, names_run>>

\* a lock that lets every thread in
Unlocked(owner, t) == TRUE

\* RLock.acquire: the lock is free or held by the calling thread
CanAcquire(owner, t) == owner \in {0, t}

\* with workspace.lock: entry
Acquire(t) ==
    /\ web.th[t].pc = "wait"
    /\ CanAcquire(web.owner[web.th[t].ws], t)
    /\ web' = [web EXCEPT !.owner[web.th[t].ws] = t, !.th[t].pc = "locked"]
    /\ UNCHANGED <<evars, wvars, names_run>>

\* the handler starts its next editor call; index touches the workspace first
Enter(t) ==
    /\ web.th[t].pc = "locked"
    /\ web.th[t].todo # <<>>
    /\ web' = [web EXCEPT !.th[t].pc = "in_op",
                          !.th[t].op = Head(web.th[t].todo),
                          !.th[t].todo = Tail(web.th[t].todo),
                          !.last_access[web.th[t].ws] =
                              IF Head(web.th[t].todo) = "render" THEN web.clock ELSE @]
    /\ UNCHANGED <<evars, wvars, names_run>>

\* the editor call returns or raises
Leave(t) ==
    /\ web.th[t].pc = "in_op"
    /\ web' = [web EXCEPT !.th[t].pc = "locked", !.th[t].op = ""]
    /\ UNCHANGED <<evars, wvars, names_run>>

\* with workspace.lock: exit, after the last call, an early return or an
\* exception, and the end of the request
Release(t) ==
    /\ web.th[t].pc = "locked"
    /\ web' = [web EXCEPT !.owner[web.th[t].ws] = 0, !.th[t] = NoRequest]
    /\ UNCHANGED <<evars, wvars, names_run>>

\* time passes
WebTick ==
    /\ web.run
    /\ web.clock < MaxWebClock
    /\ web' = [web EXCEPT !.clock = @ + 1]
    /\ UNCHANGED <<evars, wvars, names_run>>

WebNext ==
    \/ \E t \in Threads, route \in DOMAIN Calls, session \in Sessions :
          Request(t, route, session)
    \/ \E t \in Threads : Current(t)
    \/ \E t \in Threads : Acquire(t)
    \/ \E t \in Threads : Enter(t)
    \/ \E t \in Threads : Leave(t)
    \/ \E t \in Threads : Release(t)
    \/ WebTick

SpecWeb == WebInit /\ [][WebNext]_vars

\* ------------------------------------------------------------ the claims

\* the step is one editor call of operation op
IsCall(op) == nops' = nops + 1 /\ last'.op = op

\* keys and payloads of the archive, in order (None when there is no archive)
Contents(a) ==
    IF a = None THEN None
    ELSE Some([i \in 1..Len(a[1].files) |->
                 [name |-> a[1].files[i].name, buf |-> a[1].files[i].file.buf]])

NumFilesValue(root, parm) == NodeAt(root, parm[1]).value

\* C1: with a manifest that has an Install/NumFiles parm, after every
\* successful add_file or remove_file the NumFiles value is the number of rows
\* of records.
C1_NumFilesIsRecordCount ==
    (/\ last.op \in {"add_file", "remove_file"}
     /\ last.result = "ok"
     /\ xml_root # None
     /\ FindNumFiles(xml_root[1]) # None)
    => NumFilesValue(xml_root[1], FindNumFiles(xml_root[1])) = Str(Len(records))

\* C2: from a load whose manifest Source values are exactly the archive keys
\* other than _setup.xml, after any sequence of successful add_file and
\* remove_file calls the two sets are still equal.
C2_SourcesAreKeys == clean => Consistent(Editor)

\* C3: a remove_file that fails with ManifestMismatch leaves the archive's keys
\* and payloads and the manifest as they were.
C3_FailedRemoveChangesNothing ==
    [][(IsCall("remove_file") /\ last'.result = "ManifestMismatch")
        => (Contents(archive') = Contents(archive) /\ xml_root' = xml_root)]_vars

\* C4: an add_file that fails for lack of a FileOperation element leaves the
\* archive's key set and the manifest as they were.
C4_FailedAddChangesNothing ==
    [][(IsCall("add_file") /\ last'.result = "ManifestMismatch")
        => (KeySet(archive'[1].files) = KeySet(archive[1].files)
            /\ xml_root' = xml_root)]_vars

\* C5: a load that fails leaves archive, manifest tree, detected encoding,
\* records, directories, loaded name and signature snapshot as they were, and
\* clears path.
C5_FailedLoadChangesNothing ==
    [][(IsCall("load") /\ last'.result # "ok")
        => (/\ archive' = archive
            /\ xml_root' = xml_root
            /\ setup_encoding' = setup_encoding
            /\ records' = records
            /\ directories' = directories
            /\ loaded_name' = loaded_name
            /\ signature_before' = signature_before
            /\ path' = None)]_vars

\* C6: once a load has succeeded, no call other than load changes whether a
\* manifest tree is present, and no call is rejected as NotLoaded.
C6_StaysLoaded ==
    [][(signature_before # None /\ nops' = nops + 1 /\ last'.op # "load")
        => (/\ (xml_root' = None) = (xml_root = None)
            /\ last'.result # "NotLoaded")]_vars

\* C7: two consecutive successful build_cab_bytes calls with the same compress
\* flag and no call between them return the same bytes, whatever the clock did.
C7_RebuildIsIdentical ==
    [][(/\ last.op = "build_cab_bytes"
        /\ last.result = "ok"
        /\ IsCall("build_cab_bytes")
        /\ last'.result = "ok"
        /\ last'.compress = last.compress)
        => last'.out = last.out]_vars

\* C8 as stated: build_cab_bytes leaves every archive entry, the manifest tree,
\* records and directories as they were.
C8_BuildChangesNothing ==
    [][IsCall("build_cab_bytes")
        => (/\ archive' = archive
            /\ xml_root' = xml_root
            /\ records' = records
            /\ directories' = directories)]_vars

\* the archive entries other than _setup.xml, in order
OtherEntries(a) ==
    IF a = None THEN None ELSE Some(SelectSeq(a[1].files, LAMBDA x : x.name # Lit.setup_xml))

\* C8 as amended: build_cab_bytes leaves the manifest tree, records,
\* directories and every archive entry other than _setup.xml as they were;
\* without a manifest the archive is untouched, and with one a call that gets
\* past the loaded check leaves _setup.xml holding the UTF-8 serialisation of
\* the tree, stamped with the time of the call.
C8_BuildChangesOnlySetupXml ==
    [][IsCall("build_cab_bytes")
        => (/\ xml_root' = xml_root
            /\ records' = records
            /\ directories' = directories
            /\ OtherEntries(archive') = OtherEntries(archive)
            /\ (xml_root = None \/ last'.result # "ok") => archive' = archive
            /\ (xml_root # None /\ last'.result = "ok")
                => (/\ archive'[1].set_id = archive[1].set_id
                    /\ Has(archive'[1].files, Lit.setup_xml)
                    /\ Get(archive'[1].files, Lit.setup_xml)
                         = CabFile(XmlBytes("utf-8", xml_root[1]), now)))]_vars

\* C8's case: a build of an editor whose manifest was loaded as UTF-16 has
\* replaced the _setup.xml payload by the UTF-8 serialisation.
C8_Witness ==
    /\ last.op = "build_cab_bytes"
    /\ last.result = "ok"
    /\ xml_root # None
    /\ setup_encoding = "utf-16"
    /\ Get(archive[1].files, Lit.setup_xml).buf = XmlBytes("utf-8", xml_root[1])

\* C9: the bytes build_cab_bytes returns carry the set id, the reserved-area
\* sizes and the header reserve bytes of the CAB the archive was loaded from.
C9_BuildKeepsLayout ==
    (last.op = "build_cab_bytes" /\ last.result = "ok")
    => (/\ last.out[1].set_id = Disk[origin].set_id
        /\ last.out[1].cb_cfheader = Disk[origin].cb_cfheader
        /\ last.out[1].cb_cffolder = Disk[origin].cb_cffolder
        /\ last.out[1].cb_cfdata = Disk[origin].cb_cfdata
        /\ last.out[1].header_reserve = Disk[origin].header_reserve)

\* the names of the files of folder f (counted from 0) of a file table
Group(files, field, f) ==
    [j \in 1..Len(SelectSeq(files, LAMBDA x : x[field] = f)) |->
        SelectSeq(files, LAMBDA x : x[field] = f)[j].name]

\* C10: repacking the unmodified archive of B with T = parse_cab_layout(B)
\* keeps the set id, the header reserve bytes and the file-table order, and the
\* i-th folder written carries the reserve bytes of B's i-th folder and holds
\* the same names.
C10_RepackKeepsLayout ==
    (wpc = "written" /\ wtemplate # None /\ warchive = ParsedArchive(wcab))
    => (/\ wout # None
        /\ wout[1].set_id = wcab.set_id
        /\ wout[1].header_reserve = wcab.header_reserve
        /\ [i \in 1..Len(wout[1].cffiles) |-> wout[1].cffiles[i].name]
             = [i \in 1..Len(wcab.files) |-> wcab.files[i].name]
        /\ Len(wout[1].folders) = Len(wcab.folders)
        /\ \A f \in 1..Len(wcab.folders) :
              /\ wout[1].folders[f].reserve = wcab.folders[f].reserve
              /\ Group(wout[1].cffiles, "ifolder", f - 1) = Group(wcab.files, "folder", f - 1))

\* C11: parsing the bytes written for a non-empty archive without compression
\* yields the same keys in the same iteration order and the same payloads.
C11_StoredRoundTrip ==
    (wpc = "written" /\ wout # None /\ \A f \in 1..Len(wout[1].folders) :
                                          wout[1].folders[f].compression_type = 0)
    => Contents(Some(CabArchive_parse(wout[1]))) = Contents(Some(warchive))

\* The byte positions in a written CAB, counted over what was appended: the
\* header, the reserve sizes and header reserve when flagged, the folder
\* records with their reserves, the file records with their names, the data
\* blocks with their reserves.
FolderTableAt(cab) ==
    CfHeaderSize + (IF cab.flags = 4 THEN CfReserveSize + Len(cab.header_reserve) ELSE 0)
FileTableAt(cab) ==
    FolderTableAt(cab)
    + SumSeq([f \in 1..Len(cab.folders) |-> CfFolderSize + Len(cab.folders[f].reserve)])
DataAt(cab) ==
    FileTableAt(cab)
    + SumSeq([i \in 1..Len(cab.cffiles) |-> CfFileSize + Len(cab.cffiles[i].name) + 1])
FolderDataSize(cab, f) ==
    SumSeq([b \in 1..Len(cab.blocks[f]) |->
              CfDataSize + cab.cb_cfdata + cab.blocks[f][b].encoded_size])

\* C12: in every CAB written, the cabinet-size field is the total length,
\* coff_files is where the file table starts, each folder's data offset is
\* where its first data block header lies, and each file's offset is the sum of
\* the sizes of the files before it in its folder.
C12_OffsetsPointWhereBytesLand ==
    (wpc = "written" /\ wout # None)
    => (/\ wout[1].cabinet_size
              = DataAt(wout[1])
                + SumSeq([f \in 1..Len(wout[1].folders) |-> FolderDataSize(wout[1], f)])
        /\ wout[1].coff_files = FileTableAt(wout[1])
        /\ \A f \in 1..Len(wout[1].folders) :
              wout[1].folders[f].coff_data
                = DataAt(wout[1])
                  + SumSeq([g \in 1..(f - 1) |-> FolderDataSize(wout[1], g)])
        /\ \A i \in 1..Len(wout[1].cffiles) :
              wout[1].cffiles[i].uoff
                = SumSeq([j \in 1..(i - 1) |->
                     IF wout[1].cffiles[j].ifolder = wout[1].cffiles[i].ifolder
                     THEN wout[1].cffiles[j].size ELSE 0]))

\* C12's case: a compressed CAB of two folders, one of them of two blocks,
\* with a reserve on every data block, and a file that does not start its
\* folder.
C12_Witness ==
    /\ wpc = "written"
    /\ wout # None
    /\ Len(wout[1].folders) = 2
    /\ wout[1].cb_cfdata = 1
    /\ \E f \in 1..2 : wout[1].folders[f].nblocks = 2 /\ wout[1].folders[f].compression_type = 1
    /\ \E i \in 1..Len(wout[1].cffiles) : wout[1].cffiles[i].uoff > 0

\* the i-th candidate of the call under way
CandidateOf(run, i) ==
    Candidate(SourceStem(PathName(run.display_name)), i, SourceExt(PathName(run.display_name)))
\* the indices whose candidate is free
FreeIndices(run) ==
    {i \in 1..LastIndex : Lower(CandidateOf(run, i)) \notin run.existing_lower}
\* what the call has to return
Expected(run, free) ==
    IF free # {} THEN Some(CandidateOf(run, CHOOSE i \in free : \A j \in free : i <= j))
    ELSE IF Lower(Lit.PY \o Str(run.t) \o Lit.dotDAT) \notin run.existing_lower
    THEN Some(Lit.PY \o Str(run.t) \o Lit.dotDAT)
    ELSE None

\* C13: generate_source_name returns the candidate STEM~i.EXT of the smallest
\* free i in 1..999, else the timestamp fallback when it is free, else fails,
\* and never a name whose lower-case form is taken; a successful add_file
\* inserts one key (beside the _setup.xml entry it writes back), which differs
\* from every earlier key even ignoring case, and leaves the earlier entries
\* other than _setup.xml as they were.
C13_SourceNameIsFresh ==
    [][/\ (names_run.pc = "input" /\ names_run'.pc = "done")
          => (/\ names_run'.result = Expected(names_run', FreeIndices(names_run'))
              /\ names_run'.result # None
                    => Lower(names_run'.result[1]) \notin names_run.existing_lower)
       /\ (IsCall("add_file") /\ last'.result = "ok")
          => (/\ Cardinality((KeySet(archive'[1].files) \ KeySet(archive[1].files))
                               \ {Lit.setup_xml}) = 1
              /\ KeySet(archive[1].files) \subseteq KeySet(archive'[1].files)
              /\ \A k \in KeySet(archive'[1].files) \ KeySet(archive[1].files) :
                    \A x \in KeySet(archive[1].files) : Lower(k) # Lower(x)
              /\ \A x \in KeySet(archive[1].files) \ {Lit.setup_xml} :
                    Get(archive'[1].files, x) = Get(archive[1].files, x))]_vars

\* C13's case: a second add_file of the same name has been given the candidate
\* of index 2.
C13_Witness ==
    /\ last.op = "add_file"
    /\ last.result = "ok"
    /\ \E k \in KeySet(archive[1].files) :
          /\ k = Candidate(SourceStem(Names.x_bin), 2, SourceExt(Names.x_bin))
          /\ Has(archive[1].files, Candidate(SourceStem(Names.x_bin), 1, SourceExt(Names.x_bin)))

\* C14: in an editor loaded from a CAB with no _setup.xml, after add_file with
\* display name D the records hold a row whose display name is D and whose
\* source name is the short name generated for D.
C14_AddedRowShowsDisplayName ==
    (/\ last.op = "add_file"
     /\ last.result = "ok"
     /\ xml_root = None
     /\ Strip(last.given[2]) # <<>>)
    => \E i \in 1..Len(records) :
          /\ records[i].display_name = Strip(last.given[2])
          /\ \E j \in 1..LastIndex :
                records[i].source_name =
                    Candidate(SourceStem(last.given[2]), j, SourceExt(last.given[2]))

\* the type values starting with a backslash of the parents of the manifest's
\* file elements
ParentTypes(root, nodes) ==
    {NodeAt(root, nodes[i].parent).type : i \in
        {j \in 1..Len(nodes) : /\ Len(NodeAt(root, nodes[j].parent).type) > 0
                               /\ NodeAt(root, nodes[j].parent).type[1] = 92}}

\* C15: in a loaded editor with a manifest, directories is exactly the sorted
\* list of the distinct type values starting with a backslash of the parents of
\* the manifest's file elements, also when those files have no archive entry,
\* and a directory listed before a successful remove_file is listed after it.
C15_DirectoriesAreManifestParents ==
    [][/\ (archive' # None /\ xml_root' # None /\ last'.result = "ok" /\ nops' > nops)
          => directories' = Sorted(ParentTypes(xml_root'[1], iter_file_nodes(xml_root'[1])))
       /\ (IsCall("remove_file") /\ last'.result = "ok" /\ xml_root # None)
          => SeqToSet(directories) \subseteq SeqToSet(directories')]_vars

\* C16: in an editor loaded without a manifest, remove_file of a name that is
\* no archive key leaves the archive as it was and does not succeed, and a
\* remove_file that succeeds was given a key of the archive.
C16_MissingKeyIsNotRemoved ==
    [][(IsCall("remove_file") /\ archive # None /\ xml_root = None)
          => (/\ ~Has(archive[1].files, last'.arg)
                    => (archive' = archive /\ last'.result # "ok")
              /\ last'.result = "ok"
                    => (/\ Has(archive[1].files, last'.arg)
                        /\ ~Has(archive'[1].files, last'.arg)))]_vars

\* the payload an update_file or add_file call was given
GivenPayload(call) == call.given[Len(call.given)]

\* C17: update_file and add_file raise on every validation failure (no
\* archive, update_file of a name that is no key of the archive as spelt, an
\* empty payload, no display name to be had) and a call that raised one of
\* these left archive, manifest, records and directories as they were.
C17_ValidationFailuresChangeNothing ==
    [][(IsCall("update_file") \/ IsCall("add_file"))
          => (/\ archive = None => last'.result = "NotLoaded"
              /\ (/\ last'.op = "update_file"
                  /\ archive # None
                  /\ archive[1].files # <<>>
                  /\ ~Has(archive[1].files, last'.arg))
                    => last'.result = "EntryMissing"
              /\ (/\ archive # None
                  /\ archive[1].files # <<>>
                  /\ GivenPayload(last') = <<>>)
                    => last'.result \in {"EntryMissing", "EmptyPayload"}
              /\ (/\ last'.op = "add_file"
                  /\ archive # None
                  /\ archive[1].files # <<>>
                  /\ GivenPayload(last') # <<>>
                  /\ Strip(last'.given[2]) = <<>>
                  /\ secure_filename(last'.given[1]) = <<>>)
                    => last'.result = "NameRequired"
              /\ last'.result \in {"NotLoaded", "EntryMissing", "EmptyPayload",
                                    "NameRequired"}
                    => UNCHANGED <<archive, xml_root, records, directories>>)]_vars

\* C17's case: update_file of an entry of a CAB with a manifest has been
\* refused for its empty payload.
C17_Witness ==
    /\ last.op = "update_file"
    /\ last.result = "EmptyPayload"
    /\ xml_root # None
    /\ Has(archive[1].files, last.arg)
    /\ records # <<>>

\* the display name add_file is to use: the caller's, trimmed, when that is
\* not empty, and the sanitized upload filename otherwise
EffectiveName(call) ==
    IF Strip(call.given[2]) # <<>> THEN Strip(call.given[2])
    ELSE secure_filename(call.given[1])

\* C18: add_file with a loaded archive and a payload fails for lack of a
\* display name exactly when the trimmed display name and the sanitized
\* filename are both empty, and otherwise names the new entry after the
\* trimmed display name or, when that is empty, after the sanitized filename.
C18_DisplayNameFallsBackToFilename ==
    [][(/\ IsCall("add_file")
        /\ archive # None
        /\ archive[1].files # <<>>
        /\ GivenPayload(last') # <<>>)
          => (/\ last'.result = "NameRequired" <=> EffectiveName(last') = <<>>
              /\ last'.result = "ok"
                    => \E k \in KeySet(archive'[1].files) \ KeySet(archive[1].files) :
                          \E j \in 1..LastIndex :
                             k = Candidate(SourceStem(EffectiveName(last')), j,
                                           SourceExt(EffectiveName(last'))))]_vars

\* C19: a thread between the entry and the exit of its handler's locked block,
\* in an editor call or between two, owns the lock of its workspace, so no two
\* threads are in editor calls of one workspace at once.
C19_OneOperationPerWorkspace ==
    /\ \A t \in Threads :
          web.th[t].pc \in {"locked", "in_op"} => web.owner[web.th[t].ws] = t
    /\ \A t \in Threads, u \in Threads :
          (t # u /\ web.th[t].pc = "in_op" /\ web.th[u].pc = "in_op")
             => web.th[t].ws # web.th[u].ws

\* C19's case: two threads are in editor calls of two workspaces at once, one
\* of them in the second call of its handler.
C19_Witness ==
    \E t \in Threads, u \in Threads :
       /\ t # u
       /\ web.th[t].pc = "in_op"
       /\ web.th[u].pc = "in_op"
       /\ web.th[t].ws # web.th[u].ws
       /\ web.th[t].op = "get_file_bytes"

\* C20: build_cab_bytes of an editor whose archive has no entries fails and
\* returns no bytes, and so does build_ce_cab_bytes called with an archive
\* that has no entries.
C20_EmptyArchiveIsNotBuilt ==
    [][/\ (/\ IsCall("build_cab_bytes")
           /\ (archive = None \/ archive[1].files = <<>>))
          => (last'.result # "ok" /\ last'.out = None)
       /\ (wpc \in {"parsed", "plain"} /\ wpc' = "written" /\ warchive.files = <<>>)
          => wout' = None]_vars

\* C20's case: build_cab_bytes was refused after remove_file had removed the
\* last entry of an archive without a manifest.
C20_Witness ==
    /\ last.op = "build_cab_bytes"
    /\ last.result # "ok"
    /\ archive # None
    /\ archive[1].files = <<>>
    /\ origin = "d2"

\* the names of emitted folder f (counted from 1), and the position in the
\* file table of the first of them
NamesIn(cab, f) == {cab.cffiles[i].name : i \in {j \in 1..Len(cab.cffiles) :
                                                    cab.cffiles[j].ifolder = f - 1}}
FirstRecordOf(cab, f) ==
    CHOOSE i \in 1..Len(cab.cffiles) :
       /\ cab.cffiles[i].ifolder = f - 1
       /\ \A j \in 1..(i - 1) : cab.cffiles[j].ifolder # f - 1
\* the folder keys _build_folders gives the names of the file table
KeysWritten(cab, file_folders) ==
    FolderKeys([i \in 1..Len(cab.cffiles) |-> cab.cffiles[i].name], file_folders,
               MaxOf({file_folders[n] : n \in DOMAIN file_folders}) + 1)
\* reserve bytes cut or zero-filled to n bytes
Fitted(reserve, n) == [i \in 1..n |-> IF i <= Len(reserve) THEN reserve[i] ELSE 0]
\* the payloads of the files of folder f, in file-table order
PayloadsIn(cab, arch, f) ==
    Flatten([i \in 1..Len(cab.cffiles) |->
        IF cab.cffiles[i].ifolder = f - 1
        THEN Get(arch.files, cab.cffiles[i].name).buf.bytes ELSE <<>>])

TemplateKept(template, files) ==
    IF template = None THEN <<>>
    ELSE SelectSeq(template[1].file_order, LAMBDA n : Has(files, n))
\* kept, followed by the other keys sorted, or by the other keys in the order
\* they were inserted
OrdersClaimed(kept, files) ==
    {kept \o Sorted(KeySet(files) \ SeqToSet(kept)),
     kept \o SelectSeq(KeyOrder(files), LAMBDA n : n \notin SeqToSet(kept))}

\* C22: the file table lists the template's file_order restricted to the names
\* still in the archive, then the remaining names, sorted ascending (sort true)
\* or in the archive's insertion order (sort false).
C22_OrderIsTemplateThenRest ==
    (wpc = "written" /\ wout # None)
    => [i \in 1..Len(wout[1].cffiles) |-> wout[1].cffiles[i].name]
          \in OrdersClaimed(TemplateKept(wtemplate, warchive.files), warchive.files)

\* the paths of the file elements two levels below FileOperation that have
\* an Extract/Source parm
FilesAtDepth(root, fileop) ==
    {fileop \o <<d, f>> : <<d, f>> \in
        {p \in (1..4) \X (1..4) :
            /\ p[1] <= Len(NodeAt(root, fileop).kids)
            /\ NodeAt(root, fileop \o <<p[1]>>).tag = "characteristic"
            /\ p[2] <= Len(NodeAt(root, fileop \o <<p[1]>>).kids)
            /\ NodeAt(root, fileop \o <<p[1], p[2]>>).tag = "characteristic"
            /\ FindExtractSource(NodeAt(root, fileop \o <<p[1], p[2]>>)) # None}}

\* C23: iter_file_nodes yields exactly the file elements that are children of
\* children of FileOperation and have an Extract/Source parm, each once and
\* with its parent as directory; nothing nested deeper is yielded.
C23_EnumerationStaysAtDepth ==
    (xml_root # None /\ FindFileOp(xml_root[1]) # None)
    => (/\ {iter_file_nodes(xml_root[1])[i].file_node :
               i \in 1..Len(iter_file_nodes(xml_root[1]))}
             = FilesAtDepth(xml_root[1], FindFileOp(xml_root[1])[1])
        /\ \A i \in 1..Len(iter_file_nodes(xml_root[1])) :
              /\ iter_file_nodes(xml_root[1])[i].file_node
                    = iter_file_nodes(xml_root[1])[i].parent
                      \o <<iter_file_nodes(xml_root[1])[i].file_node[3]>>
              /\ \A j \in 1..Len(iter_file_nodes(xml_root[1])) :
                    i # j => iter_file_nodes(xml_root[1])[i].file_node
                               # iter_file_nodes(xml_root[1])[j].file_node)


\* the call of current() thread t makes in this step
IsCurrent(t) == web.th[t].pc = "start" /\ web'.th[t].pc = "wait"

\* the workspace w was last accessed no longer ago than the TTL
WithinTtl(w) == web.clock - web.last_access[w] <= web.ttl

\* C24: a call of current() returns the workspace the session's previous call
\* returned when that workspace's last access is no older than the TTL;
\* otherwise it returns a workspace made in this call, registered for the
\* session, and the old one is registered nowhere; the table never holds one
\* workspace for two sessions, and the workspace returned is the registered one.
C24_CurrentReturnsLiveWorkspace ==
    [][\A t \in Threads :
          IsCurrent(t) =>
             /\ (web.prev[web.th[t].session] # 0
                   /\ WithinTtl(web.prev[web.th[t].session]))
                  => web'.th[t].ws = web.prev[web.th[t].session]
             /\ (web.prev[web.th[t].session] # 0
                   /\ ~WithinTtl(web.prev[web.th[t].session]))
                  => /\ web'.th[t].ws = web.made + 1
                     /\ web'.made = web.made + 1
                     /\ \A s \in Sessions :
                           web'.state[s] # web.prev[web.th[t].session]
             /\ web'.state[web.th[t].session] = web'.th[t].ws
             /\ \A s1, s2 \in Sessions :
                   (s1 # s2 /\ web'.state[s1] # 0)
                      => web'.state[s1] # web'.state[s2]]_vars


\* thread t holds its workspace's lock and is inside an editor call
InOperation(t) ==
    /\ web.th[t].pc = "in_op"
    /\ web.owner[web.th[t].ws] = t

\* C28: no step removes from the manager's table the workspace whose lock a
\* thread holds with an editor call in progress: while the call runs, the
\* workspace stays the one registered for the thread's session, so the next
\* request of the session gets the workspace the call changed.
C28_WorkspaceInUseStaysRegistered ==
    [][\A t \in Threads :
          (InOperation(t) /\ web.state[web.th[t].session] = web.th[t].ws)
             => web'.state[web.th[t].session] = web.th[t].ws]_vars


\* the values of all the Source parms of the manifest
RECURSIVE SourcesIn(_)
SourcesIn(node) ==
    (IF node.tag = "parm" /\ node.name = Lit.Source THEN {node.value} ELSE {})
    \cup UNION {SourcesIn(node.kids[i]) : i \in 1..Len(node.kids)}

\* the archive keys that are short names generated for the name the add_file
\* call used
GeneratedFor(call, files) ==
    {k \in KeySet(files) : \E j \in 1..MaxOps :
        k = Candidate(SourceStem(FinalName(call.given[2], secure_filename(call.given[1]))),
                      j,
                      SourceExt(FinalName(call.given[2], secure_filename(call.given[1]))))}

\* C25: with a manifest, a successful add_file adds one archive key and one
\* Source value and the records show a row for it; a remove_file of that key
\* right after it succeeds and takes exactly that key and that Source value
\* away again.
C25_AddThenRemoveRestores ==
    [][/\ (IsCall("add_file") /\ last'.result = "ok" /\ xml_root' # None)
          => \E k \in GeneratedFor(last', archive'[1].files) :
                /\ KeySet(archive'[1].files) = KeySet(archive[1].files) \cup {k}
                /\ k \notin KeySet(archive[1].files)
                /\ SourcesIn(xml_root'[1]) = SourcesIn(xml_root[1]) \cup {k}
                /\ k \notin SourcesIn(xml_root[1])
                /\ \E i \in 1..Len(records') : records'[i].source_name = k
       /\ (/\ IsCall("remove_file")
           /\ last.op = "add_file"
           /\ last.result = "ok"
           /\ xml_root # None
           /\ last'.arg \in GeneratedFor(last, archive[1].files))
          => /\ last'.result = "ok"
             /\ KeySet(archive'[1].files) = KeySet(archive[1].files) \ {last'.arg}
             /\ SourcesIn(xml_root'[1]) = SourcesIn(xml_root[1]) \ {last'.arg}]_vars


\* the payloads saved under the name in the output of build_cab_bytes
SavedUnder(out, name) ==
    [i \in {j \in 1..Len(out.cffiles) : out.cffiles[j].name = name} |-> out.data[i]]

\* C26: with a manifest, the output of build_cab_bytes holds exactly one
\* _setup.xml and its payload is the UTF-8 serialisation of the manifest tree
\* of the editor, whatever the archive held under that name before the call.
C26_SavedManifestIsTheTree ==
    (last.op = "build_cab_bytes" /\ last.result = "ok" /\ xml_root # None)
    => /\ Cardinality(DOMAIN SavedUnder(last.out[1], Lit.setup_xml)) = 1
       /\ \A i \in DOMAIN SavedUnder(last.out[1], Lit.setup_xml) :
             SavedUnder(last.out[1], Lit.setup_xml)[i] = XmlBytes("utf-8", xml_root[1])

\* C26's case: the build has put back the _setup.xml entry that a failed
\* remove_file had deleted, so that it now comes after the entries it preceded
\* in the loaded CAB.
C26_Witness ==
    /\ last.op = "build_cab_bytes"
    /\ last.result = "ok"
    /\ xml_root # None
    /\ Len(archive[1].files) > 1
    /\ archive[1].files[Len(archive[1].files)].name = Lit.setup_xml
    /\ Disk[origin].files[1].name = Lit.setup_xml


\* C27: every row of records names a key of the archive, so that get_file_bytes
\* of a source name taken from records does not fail.
C27_RecordsNameArchiveKeys ==
    archive # None
    => \A i \in 1..Len(records) :
          /\ Has(archive[1].files, records[i].source_name)
          /\ get_file_bytes(Editor, records[i].source_name).result = "ok"


\* C27's case: a failed remove_file has deleted the _setup.xml entry from an
\* archive whose files the records still list.
C27_Witness ==
    /\ last.op = "remove_file"
    /\ last.result # "ok"
    /\ xml_root # None
    /\ ~Has(archive[1].files, Lit.setup_xml)
    /\ Len(records) > 0

====
